---- MODULE Spec2Model ----
(***************************************************************************)
(* A model of arch_monitor.py (ArchRepoMonitor): the record builder with   *)
(* its severity classifier and package extractor, the deduplicator, the    *)
(* correlator, the risk aggregator and the run that chains them.           *)
(*                                                                         *)
(* Representation.  A Python str whose characters the program inspects     *)
(* (titles, bodies, urls, keywords, package names, semantic group names)   *)
(* is a sequence of one-character strings, so that `k in text`, lower(),   *)
(* the regular expressions and split() are computed character by           *)
(* character.  A non-ASCII character is written "U+XXXX".  Source names,   *)
(* severities and levels are only compared for equality and stay strings.  *)
(* None is the empty sequence <<>> and a present optional value x is <<x>>.*)
(* Dates are whole days.  Weights are in hundredths (1.8 is 180).          *)
(* Scores and dangers are exact fractions <<n, d>>, d > 0: the rounding of *)
(* floating-point arithmetic is not modelled.                              *)
(*                                                                         *)
(* Specifications.  Spec is a run of check_repo_status over what the       *)
(* sources return.  SpecBuild, SpecDedupe, SpecCorrelate and SpecRisk      *)
(* apply _process_entry, _deduplicate, _correlate_and_filter and           *)
(* _analyze_update_safety to inputs drawn from bounded sets.               *)
(***************************************************************************)
EXTENDS Integers, Sequences, FiniteSets, TLC

VARIABLES
  pc,               \* position of the run
  entry,            \* the record handed to _process_entry
  built,            \* what _process_entry returned for entry
  fetched,         \* what the source fetched last returned
  errors,           \* names of the sources whose fetch logged an error
  all_issues_raw,   \* check_repo_status: issues collected from the sources
  all_fixes_raw,    \* check_repo_status: fixes collected from the sources
  dedup_issues,     \* output of _deduplicate on the confident issues
  dedup_fixes,      \* output of _deduplicate on the fixes
  unresolved,       \* output of _correlate_and_filter
  resolved,         \* output of _correlate_and_filter
  safety_status     \* output of _analyze_update_safety

vars ==
  <<pc, entry, built, fetched, errors, all_issues_raw, all_fixes_raw,
    dedup_issues, dedup_fixes, unresolved, resolved, safety_status>>

-----------------------------------------------------------------------------
(* Python values *)

None == <<>>

Some(x) == <<x>>

Range(s) == {s[n] : n \in 1..Len(s)}

Min(a, b) == IF a <= b THEN a ELSE b

Max(a, b) == IF a >= b THEN a ELSE b

-----------------------------------------------------------------------------
(* Characters and strings *)

ascii_lowercase ==
  <<"a","b","c","d","e","f","g","h","i","j","k","l","m",
    "n","o","p","q","r","s","t","u","v","w","x","y","z">>

ascii_uppercase ==
  <<"A","B","C","D","E","F","G","H","I","J","K","L","M",
    "N","O","P","Q","R","S","T","U","V","W","X","Y","Z">>

digits == {"0","1","2","3","4","5","6","7","8","9"}

\* Letters outside ASCII that occur in the configuration ('[решено]').
other_letters == {"U+0440","U+0435","U+0448","U+043D","U+043E"}

\* \s of the re module, as far as a TLA+ string can spell it.
whitespace == {" ", "\t", "\n", "\r", "\f"}

\* \w of the re module: letters, digits and the underscore.
word_chars ==
  Range(ascii_lowercase) \cup Range(ascii_uppercase) \cup digits
    \cup other_letters \cup {"_"}

IsWordChar(c) == c \in word_chars

\* str.lower() on one character.
lower_map ==
  [c \in Range(ascii_uppercase) |->
     ascii_lowercase[CHOOSE n \in 1..26 : ascii_uppercase[n] = c]]

lower_char(c) == IF c \in DOMAIN lower_map THEN lower_map[c] ELSE c

\* str.lower()
lower(s) == [n \in 1..Len(s) |-> lower_char(s[n])]

\* s occurs in t at index i (1-based).
StartsAt(s, t, i) ==
  /\ i >= 1
  /\ i + Len(s) - 1 <= Len(t)
  /\ \A j \in 1..Len(s) : t[i + j - 1] = s[j]

\* Python's `s in t` for strings.
In(s, t) ==
  \/ s = <<>>
  \/ \E i \in 1..(Len(t) - Len(s) + 1) : t[i] = s[1] /\ StartsAt(s, t, i)

\* any(k in text for k in keywords)
any_in(keywords, text) == \E n \in 1..Len(keywords) : In(keywords[n], text)

\* Whether the character at index i of t exists and is a word character.
WordAt(t, i) == i >= 1 /\ i <= Len(t) /\ IsWordChar(t[i])

\* \b of the re module just before index i of t.
WordBoundary(t, i) == WordAt(t, i - 1) # WordAt(t, i)

\* str.strip(chars)
RECURSIVE lstrip(_, _)
lstrip(s, chars) ==
  IF s # <<>> /\ Head(s) \in chars THEN lstrip(Tail(s), chars) ELSE s

RECURSIVE rstrip(_, _)
rstrip(s, chars) ==
  IF s # <<>> /\ s[Len(s)] \in chars
    THEN rstrip(SubSeq(s, 1, Len(s) - 1), chars)
    ELSE s

strip(s, chars) == rstrip(lstrip(s, chars), chars)

\* str.isdigit()
isdigit(s) == s # <<>> /\ \A n \in 1..Len(s) : s[n] \in digits

\* End (exclusive) of the longest run of characters of class cls from index i.
RECURSIVE RunEnd(_, _, _)
RunEnd(t, i, cls) ==
  IF i <= Len(t) /\ t[i] \in cls THEN RunEnd(t, i + 1, cls) ELSE i

-----------------------------------------------------------------------------
(* self.config *)

keywords_problem ==
  <<
    <<"b","r","o","k","e","n">>,  \* 'broken'
    <<"b","r","e","a","k">>,  \* 'break'
    <<"f","a","i","l","s">>,  \* 'fails'
    <<"f","a","i","l","u","r","e">>,  \* 'failure'
    <<"e","r","r","o","r">>,  \* 'error'
    <<"b","u","g">>,  \* 'bug'
    <<"r","e","g","r","e","s","s","i","o","n">>,  \* 'regression'
    <<"d","o","w","n","g","r","a","d","e">>,  \* 'downgrade'
    <<"c","o","r","r","u","p","t">>,  \* 'corrupt'
    <<"c","r","a","s","h">>,  \* 'crash'
    <<"s","e","g","f","a","u","l","t">>,  \* 'segfault'
    <<"f","r","e","e","z","e">>,  \* 'freeze'
    <<"h","a","n","g","s">>,  \* 'hangs'
    <<"s","t","a","l","l","e","d">>,  \* 'stalled'
    <<"u","n","s","t","a","b","l","e">>,  \* 'unstable'
    <<"a","r","t","i","f","a","c","t","i","n","g">>,  \* 'artifacting'
    <<"s","t","u","t","t","e","r","i","n","g">>,  \* 'stuttering'
    <<"g","l","i","t","c","h">>,  \* 'glitch'
    <<"f","a","i","l","e","d"," ","t","o"," ","s","t","a","r","t">>,  \* 'failed to start'
    <<"d","o","e","s","n","'","t"," ","l","a","u","n","c","h">>,  \* 'doesn't launch'
    <<"n","o","t"," ","w","o","r","k","i","n","g">>,  \* 'not working'
    <<"i","s","s","u","e">>,  \* 'issue'
    <<"p","r","o","b","l","e","m","a","t","i","c">>,  \* 'problematic'
    <<"m","i","s","b","e","h","a","v","i","n","g">>,  \* 'misbehaving'
    <<"n","o","t"," ","s","t","a","r","t","i","n","g">>,  \* 'not starting'
    <<"n","o"," ","l","o","n","g","e","r"," ","w","o","r","k","s">>  \* 'no longer works'
  >>

keywords_critical_boot_failure ==
  <<
    <<"u","n","a","b","l","e"," ","t","o"," ","b","o","o","t">>,  \* 'unable to boot'
    <<"k","e","r","n","e","l"," ","p","a","n","i","c">>,  \* 'kernel panic'
    <<"u","n","b","o","o","t","a","b","l","e">>,  \* 'unbootable'
    <<"s","y","s","t","e","m"," ","c","r","a","s","h">>,  \* 'system crash'
    <<"n","o"," ","b","o","o","t">>,  \* 'no boot'
    <<"b","l","a","c","k"," ","s","c","r","e","e","n">>,  \* 'black screen'
    <<"d","a","t","a"," ","l","o","s","s">>,  \* 'data loss'
    <<"c","o","r","r","u","p","t","i","o","n">>,  \* 'corruption'
    <<"b","r","i","c","k","e","d">>,  \* 'bricked'
    <<"d","i","s","a","p","p","e","a","r"," ","f","r","o","m"," ","b","i","o","s">>,  \* 'disappear from bios'
    <<"s","s","d"," ","d","i","s","a","p","p","e","a","r">>,  \* 'ssd disappear'
    <<"n","v","m","e"," ","d","i","s","a","p","p","e","a","r">>,  \* 'nvme disappear'
    <<"n","o","t"," ","d","e","t","e","c","t","e","d"," ","i","n"," ","b","i","o","s">>,  \* 'not detected in bios'
    <<"/","s","b","i","n","/","i","n","i","t"," ","d","o","e","s"," ","n","o","t"," ","e","x","i","s","t">>,  \* '/sbin/init does not exist'
    <<"b","o","o","t"," ","l","o","o","p">>,  \* 'boot loop'
    <<"s","t","u","c","k"," ","o","n"," ","b","o","o","t">>,  \* 'stuck on boot'
    <<"n","o"," ","d","i","s","p","l","a","y">>,  \* 'no display'
    <<"n","o"," ","o","u","t","p","u","t">>,  \* 'no output'
    <<"f","a","i","l","s"," ","t","o"," ","b","o","o","t">>,  \* 'fails to boot'
    <<"b","o","o","t"," ","f","a","i","l","u","r","e">>,  \* 'boot failure'
    <<"b","r","i","c","k","e","d"," ","m","y">>  \* 'bricked my'
  >>

keywords_kernel_failure_triggers ==
  <<
    <<"m","o","d","u","l","e"," ","b","r","o","k","e","n">>,  \* 'module broken'
    <<"m","o","d","u","l","e","s"," ","b","r","o","k","e","n">>,  \* 'modules broken'
    <<"m","o","d","u","l","e"," ","f","a","i","l","s">>,  \* 'module fails'
    <<"m","o","d","u","l","e","s"," ","f","a","i","l">>,  \* 'modules fail'
    <<"m","o","d","u","l","e","s"," ","a","r","e"," ","b","r","o","k","e","n">>,  \* 'modules are broken'
    <<"k","e","r","n","e","l"," ","f","a","i","l","s"," ","t","o"," ","b","u","i","l","d">>,  \* 'kernel fails to build'
    <<"k","e","r","n","e","l"," ","f","a","i","l","s"," ","t","o"," ","l","o","a","d">>,  \* 'kernel fails to load'
    <<"k","e","r","n","e","l"," ","m","o","d","u","l","e"," ","b","r","o","k","e","n">>  \* 'kernel module broken'
  >>

keywords_help_indicators ==
  <<
    <<"h","e","l","p"," ","m","e">>,  \* 'help me'
    <<"c","a","n"," ","a","n","y","o","n","e"," ","h","e","l","p">>,  \* 'can anyone help'
    <<"m","y"," ","j","o","u","r","n","a","l","c","t","l">>,  \* 'my journalctl'
    <<"d","m","e","s","g"," ","l","o","g">>,  \* 'dmesg log'
    <<"m","y"," ","l","a","s","t"," ","b","o","o","t"," ","l","o","g">>,  \* 'my last boot log'
    <<"w","h","a","t"," ","a","m"," ","i"," ","d","o","i","n","g"," ","w","r","o","n","g">>,  \* 'what am i doing wrong'
    <<"p","a","s","t","e","b","i","n",".","c","o","m">>,  \* 'pastebin.com'
    <<"0","x","0",".","s","t">>,  \* '0x0.st'
    <<"h","a","s","t","e","b","i","n",".","c","o","m">>,  \* 'hastebin.com'
    <<"t","e","r","m","b","i","n",".","c","o","m">>,  \* 'termbin.com'
    <<"m","y"," ","c","o","n","f","i","g"," ","i","s">>,  \* 'my config is'
    <<"m","y"," ","l","o","g">>,  \* 'my log'
    <<"m","y"," ","l","o","g","s">>,  \* 'my logs'
    <<"h","e","l","p">>,  \* 'help'
    <<"n","o","o","b">>,  \* 'noob'
    <<"n","e","w","b","i","e">>,  \* 'newbie'
    <<"n","e","w"," ","t","o"," ","a","r","c","h">>,  \* 'new to arch'
    <<"n","e","w"," ","t","o"," ","l","i","n","u","x">>,  \* 'new to linux'
    <<"h","o","w"," ","t","o">>,  \* 'how to'
    <<"t","u","t","o","r","i","a","l">>,  \* 'tutorial'
    <<"g","u","i","d","e">>,  \* 'guide'
    <<"h","o","w"," ","d","o"," ","i">>,  \* 'how do i'
    <<"t","r","y","i","n","g"," ","t","o">>,  \* 'trying to'
    <<"q","u","e","s","t","i","o","n"," ","a","b","o","u","t">>,  \* 'question about'
    <<"c","a","n"," ","i">>  \* 'can i'
  >>

keywords_debug_keywords ==
  <<
    <<"j","o","u","r","n","a","l","c","t","l">>,  \* 'journalctl'
    <<"d","m","e","s","g">>,  \* 'dmesg'
    <<"p","a","c","m","a","n",".","l","o","g">>,  \* 'pacman.log'
    <<"b","a","c","k","t","r","a","c","e">>,  \* 'backtrace'
    <<"c","o","r","e"," ","d","u","m","p">>,  \* 'core dump'
    <<"s","t","r","a","c","e">>,  \* 'strace'
    <<"b","i","s","e","c","t">>  \* 'bisect'
  >>

keywords_explicit_fix_markers ==
  <<
    <<"[","s","o","l","v","e","d","]">>,  \* '[solved]'
    <<"(","s","o","l","v","e","d",")">>,  \* '(solved)'
    <<"[","U+0440","U+0435","U+0448","U+0435","U+043D","U+043E","]">>,  \* '[\u0440\u0435\u0448\u0435\u043d\u043e]'
    <<"f","s","#">>,  \* 'fs#'
    <<"[","f","i","x","]">>,  \* '[fix]'
    <<"[","p","a","t","c","h","e","d","]">>,  \* '[patched]'
    <<"w","o","r","k","a","r","o","u","n","d"," ","f","o","r">>  \* 'workaround for'
  >>

keywords_fix_keywords ==
  <<
    <<"f","i","x">>,  \* 'fix'
    <<"f","i","x","e","d">>,  \* 'fixed'
    <<"p","a","t","c","h">>,  \* 'patch'
    <<"p","a","t","c","h","e","d">>,  \* 'patched'
    <<"w","o","r","k","a","r","o","u","n","d">>,  \* 'workaround'
    <<"r","e","s","o","l","v","e","d">>,  \* 'resolved'
    <<"s","o","l","u","t","i","o","n">>  \* 'solution'
  >>

keywords_strong_positive ==
  <<
    <<"a","d","d","s"," ","s","u","p","p","o","r","t">>,  \* 'adds support'
    <<"e","n","a","b","l","e","s"," ","s","u","p","p","o","r","t">>,  \* 'enables support'
    <<"l","a","n","d","s"," ","s","u","p","p","o","r","t">>,  \* 'lands support'
    <<"r","e","a","d","i","e","s"," ","s","u","p","p","o","r","t">>,  \* 'readies support'
    <<"s","h","i","p","s"," ","w","i","t","h">>,  \* 'ships with'
    <<"i","n","t","r","o","d","u","c","e","s">>,  \* 'introduces'
    <<"l","a","n","d","s">>,  \* 'lands'
    <<"m","e","r","g","e","s">>,  \* 'merges'
    <<"m","e","r","g","e","d">>,  \* 'merged'
    <<"e","n","a","b","l","e","s">>,  \* 'enables'
    <<"a","d","d","s">>,  \* 'adds'
    <<"r","e","l","e","a","s","e">>,  \* 'release'
    <<"i","m","p","r","o","v","e","m","e","n","t">>,  \* 'improvement'
    <<"i","m","p","r","o","v","e","s">>,  \* 'improves'
    <<"s","u","p","p","o","r","t"," ","f","o","r">>,  \* 'support for'
    <<"i","s"," ","n","o","w"," ","o","n">>,  \* 'is now on'
    <<"i","s"," ","n","o","w"," ","a","v","a","i","l","a","b","l","e">>,  \* 'is now available'
    <<"h","a","s"," ","b","e","e","n"," ","r","e","l","e","a","s","e","d">>,  \* 'has been released'
    <<"a","n","n","o","u","n","c","i","n","g">>,  \* 'announcing'
    <<"r","e","l","e","a","s","e","d">>  \* 'released'
  >>

keywords_discussion ==
  <<
    <<"w","h","y"," ","i","s">>,  \* 'why is'
    <<"i","s"," ","i","t"," ","j","u","s","t"," ","m","e">>,  \* 'is it just me'
    <<"w","h","a","t"," ","d","o"," ","y","o","u"," ","t","h","i","n","k">>,  \* 'what do you think'
    <<"t","h","o","u","g","h","t","s"," ","o","n">>,  \* 'thoughts on'
    <<"e","x","p","e","r","i","e","n","c","e"," ","w","i","t","h">>,  \* 'experience with'
    <<"d","i","s","c","u","s","s","i","o","n">>,  \* 'discussion'
    <<"p","o","l","l">>,  \* 'poll'
    <<"r","e","v","i","e","w">>,  \* 'review'
    <<"s","w","i","t","c","h","e","d"," ","t","o">>,  \* 'switched to'
    <<"j","o","u","r","n","e","y">>,  \* 'journey'
    <<"a","p","p","r","e","c","i","a","t","i","o","n">>,  \* 'appreciation'
    <<"d","o","t","f","i","l","e","s">>,  \* 'dotfiles'
    <<"l","o","v","e">>,  \* 'love'
    <<"a","m","a","z","i","n","g">>,  \* 'amazing'
    <<"e","n","j","o","y","i","n","g">>,  \* 'enjoying'
    <<"g","o","o","d","b","y","e"," ","w","i","n","d","o","w","s">>,  \* 'goodbye windows'
    <<"f","i","n","a","l","l","y"," ","h","a","p","p","e","n","e","d">>,  \* 'finally happened'
    <<"h","e","l","l","o"," ","e","v","e","r","y","o","n","e">>,  \* 'hello everyone'
    <<"w","e","l","c","o","m","e"," ","t","o">>,  \* 'welcome to'
    <<"s","h","o","w","c","a","s","e">>,  \* 'showcase'
    <<"m","y"," ","s","e","t","u","p">>,  \* 'my setup'
    <<"m","y"," ","r","i","c","e">>,  \* 'my rice'
    <<"p","o","s","t"," ","y","o","u","r">>,  \* 'post your'
    <<"o","f","f","i","c","i","a","l"," ","t","h","r","e","a","d">>,  \* 'official thread'
    <<"m","e","g","a","t","h","r","e","a","d">>,  \* 'megathread'
    <<"w","e","e","k","l","y"," ","t","h","r","e","a","d">>,  \* 'weekly thread'
    <<"g","u","i","d","e">>,  \* 'guide'
    <<"t","u","t","o","r","i","a","l">>,  \* 'tutorial'
    <<"s","h","o","u","l","d"," ","i"," ","u","s","e">>  \* 'should i use'
  >>

keywords_user_space_apps ==
  <<
    <<"s","t","e","a","m">>,  \* 'steam'
    <<"d","i","s","c","o","r","d">>,  \* 'discord'
    <<"l","u","t","r","i","s">>,  \* 'lutris'
    <<"h","e","r","o","i","c">>,  \* 'heroic'
    <<"b","l","e","n","d","e","r">>,  \* 'blender'
    <<"k","d","e","n","l","i","v","e">>,  \* 'kdenlive'
    <<"o","b","s">>,  \* 'obs'
    <<"v","l","c">>,  \* 'vlc'
    <<"f","i","r","e","f","o","x">>,  \* 'firefox'
    <<"t","h","u","n","d","e","r","b","i","r","d">>,  \* 'thunderbird'
    <<"g","a","m","e">>,  \* 'game'
    <<"e","l","d","e","n"," ","r","i","n","g">>,  \* 'elden ring'
    <<"c","y","b","e","r","p","u","n","k">>,  \* 'cyberpunk'
    <<"w","p","s","-","o","f","f","i","c","e">>,  \* 'wps-office'
    <<"l","i","b","r","e","o","f","f","i","c","e">>,  \* 'libreoffice'
    <<"w","i","n","e">>,  \* 'wine'
    <<"p","r","o","t","o","n">>  \* 'proton'
  >>

keywords_semantic_groups ==
  <<
    <<<<"s","t","o","r","a","g","e">>,
      <<<<"s","s","d">>,
         <<"n","v","m","e">>,
         <<"h","d","d">>,
         <<"d","i","s","k">>,
         <<"b","t","r","f","s">>,
         <<"e","x","t","4">>,
         <<"f","i","l","e","s","y","s","t","e","m">>,
         <<"m","o","u","n","t">>,
         <<"p","a","r","t","i","t","i","o","n">>>>>>,  \* 'storage': ssd, nvme, hdd, disk, btrfs, ext4, filesystem, mount, partition
    <<<<"n","e","t","w","o","r","k">>,
      <<<<"w","i","f","i">>,
         <<"w","i","-","f","i">>,
         <<"e","t","h","e","r","n","e","t">>,
         <<"n","e","t","w","o","r","k">>,
         <<"c","o","n","n","e","c","t">>,
         <<"d","h","c","p">>,
         <<"d","n","s">>,
         <<"r","8","1","6","8">>,
         <<"m","t","7","9","2","2">>,
         <<"b","l","u","e","t","o","o","t","h">>>>>>,  \* 'network': wifi, wi-fi, ethernet, network, connect, dhcp, dns, r8168, mt7922, bluetooth
    <<<<"g","r","a","p","h","i","c","s">>,
      <<<<"n","v","i","d","i","a">>,
         <<"a","m","d","g","p","u">>,
         <<"i","n","t","e","l">>,
         <<"m","e","s","a">>,
         <<"w","a","y","l","a","n","d">>,
         <<"x","o","r","g">>,
         <<"g","l","i","t","c","h">>,
         <<"a","r","t","i","f","a","c","t","i","n","g">>,
         <<"t","e","a","r","i","n","g">>,
         <<"h","d","r">>,
         <<"c","o","m","p","o","s","i","t","o","r">>,
         <<"d","i","s","p","l","a","y">>,
         <<"m","o","n","i","t","o","r">>,
         <<"r","e","s","o","l","u","t","i","o","n">>,
         <<"h","y","p","r","l","a","n","d">>,
         <<"k","d","e">>,
         <<"g","n","o","m","e">>,
         <<"p","l","a","s","m","a">>>>>>,  \* 'graphics': nvidia, amdgpu, intel, mesa, wayland, xorg, glitch, artifacting, tearing, hdr, compositor, display, monitor, resolution, hyprland, kde, gnome, plasma
    <<<<"a","u","d","i","o">>,
      <<<<"p","i","p","e","w","i","r","e">>,
         <<"p","u","l","s","e","a","u","d","i","o">>,
         <<"a","l","s","a">>,
         <<"s","o","u","n","d">>,
         <<"a","u","d","i","o">>,
         <<"s","p","e","a","k","e","r">>,
         <<"h","e","a","d","p","h","o","n","e">>>>>>,  \* 'audio': pipewire, pulseaudio, alsa, sound, audio, speaker, headphone
    <<<<"k","e","r","n","e","l">>,
      <<<<"k","e","r","n","e","l">>,
         <<"l","i","n","u","x">>,
         <<"m","o","d","u","l","e">>,
         <<"d","k","m","s">>,
         <<"p","a","n","i","c">>,
         <<"l","t","s">>,
         <<"z","e","n">>,
         <<"c","a","c","h","y","o","s">>,
         <<"i","n","i","t">>,
         <<"r","a","m","d","i","s","k">>,
         <<"s","u","s","p","e","n","d">>,
         <<"w","a","k","e">>>>>>,  \* 'kernel': kernel, linux, module, dkms, panic, lts, zen, cachyos, init, ramdisk, suspend, wake
    <<<<"b","o","o","t">>,
      <<<<"b","o","o","t">>,
         <<"g","r","u","b">>,
         <<"s","y","s","t","e","m","d","-","b","o","o","t">>,
         <<"u","e","f","i">>,
         <<"b","i","o","s">>,
         <<"m","k","i","n","i","t","c","p","i","o">>,
         <<"b","r","i","c","k","e","d">>>>>>,  \* 'boot': boot, grub, systemd-boot, uefi, bios, mkinitcpio, bricked
    <<<<"s","y","s","t","e","m">>,
      <<<<"s","y","s","t","e","m","d">>,
         <<"g","l","i","b","c">>,
         <<"p","a","c","m","a","n">>,
         <<"d","b","u","s">>,
         <<"b","a","s","e">>>>>>  \* 'system': systemd, glibc, pacman, dbus, base
  >>

packages_weights ==
  <<
    <<<<"g","l","i","b","c">>, 180>>,  \* 'glibc': 1.8
    <<<<"g","r","u","b">>, 180>>,  \* 'grub': 1.8
    <<<<"s","y","s","t","e","m","d">>, 160>>,  \* 'systemd': 1.6
    <<<<"l","i","n","u","x">>, 150>>,  \* 'linux': 1.5
    <<<<"l","i","n","u","x","-","l","t","s">>, 150>>,  \* 'linux-lts': 1.5
    <<<<"l","i","n","u","x","-","z","e","n">>, 150>>,  \* 'linux-zen': 1.5
    <<<<"l","i","n","u","x","-","h","a","r","d","e","n","e","d">>, 150>>,  \* 'linux-hardened': 1.5
    <<<<"p","a","c","m","a","n">>, 150>>,  \* 'pacman': 1.5
    <<<<"m","k","i","n","i","t","c","p","i","o">>, 120>>,  \* 'mkinitcpio': 1.2
    <<<<"b","a","s","e">>, 110>>,  \* 'base': 1.1
    <<<<"f","i","l","e","s","y","s","t","e","m">>, 130>>,  \* 'filesystem': 1.3
    <<<<"d","b","u","s">>, 110>>,  \* 'dbus': 1.1
    <<<<"l","i","n","u","x","-","c","a","c","h","y","o","s">>, 170>>,  \* 'linux-cachyos': 1.7
    <<<<"c","a","c","h","y","o","s","-","s","e","t","t","i","n","g","s">>, 130>>,  \* 'cachyos-settings': 1.3
    <<<<"c","a","c","h","y","-","s","c","h","e","d">>, 140>>,  \* 'cachy-sched': 1.4
    <<<<"b","o","r","e","-","s","c","h","e","d">>, 140>>,  \* 'bore-sched': 1.4
    <<<<"c","a","c","h","y","o","s","-","a","n","a","n","i","c","y","-","r","u","l","e","s","-","g","i","t">>, 120>>,  \* 'cachyos-ananicy-rules-git': 1.2
    <<<<"c","a","c","h","y","o","s","-","g","r","u","b","-","t","h","e","m","e">>, 100>>,  \* 'cachyos-grub-theme': 1.0
    <<<<"c","a","c","h","y","o","s","-","h","o","o","k","s">>, 110>>,  \* 'cachyos-hooks': 1.1
    <<<<"m","e","s","a">>, 140>>,  \* 'mesa': 1.4
    <<<<"n","v","i","d","i","a">>, 140>>,  \* 'nvidia': 1.4
    <<<<"n","v","i","d","i","a","-","d","k","m","s">>, 140>>,  \* 'nvidia-dkms': 1.4
    <<<<"a","m","d","g","p","u">>, 130>>,  \* 'amdgpu': 1.3
    <<<<"w","a","y","l","a","n","d">>, 120>>,  \* 'wayland': 1.2
    <<<<"x","o","r","g","-","s","e","r","v","e","r">>, 120>>,  \* 'xorg-server': 1.2
    <<<<"p","l","a","s","m","a">>, 110>>,  \* 'plasma': 1.1
    <<<<"p","i","p","e","w","i","r","e">>, 110>>,  \* 'pipewire': 1.1
    <<<<"d","e","f","a","u","l","t">>, 100>>  \* 'default': 1.0
  >>

categories_kernel_packages ==
  <<
    <<"l","i","n","u","x">>,  \* 'linux'
    <<"l","i","n","u","x","-","l","t","s">>,  \* 'linux-lts'
    <<"l","i","n","u","x","-","z","e","n">>,  \* 'linux-zen'
    <<"l","i","n","u","x","-","h","a","r","d","e","n","e","d">>,  \* 'linux-hardened'
    <<"l","i","n","u","x","-","c","a","c","h","y","o","s">>  \* 'linux-cachyos'
  >>

categories_critical_system ==
  <<
    <<"s","y","s","t","e","m","d">>,  \* 'systemd'
    <<"g","l","i","b","c">>,  \* 'glibc'
    <<"g","r","u","b">>,  \* 'grub'
    <<"p","a","c","m","a","n">>,  \* 'pacman'
    <<"f","i","l","e","s","y","s","t","e","m">>,  \* 'filesystem'
    <<"b","a","s","e">>,  \* 'base'
    <<"m","k","i","n","i","t","c","p","i","o">>  \* 'mkinitcpio'
  >>

categories_critical_cachyos ==
  <<
    <<"c","a","c","h","y","-","s","c","h","e","d">>,  \* 'cachy-sched'
    <<"b","o","r","e","-","s","c","h","e","d">>  \* 'bore-sched'
  >>

categories_important ==
  <<
    <<"m","e","s","a">>,  \* 'mesa'
    <<"n","v","i","d","i","a">>,  \* 'nvidia'
    <<"n","v","i","d","i","a","-","d","k","m","s">>,  \* 'nvidia-dkms'
    <<"a","m","d","g","p","u">>,  \* 'amdgpu'
    <<"w","a","y","l","a","n","d">>,  \* 'wayland'
    <<"p","i","p","e","w","i","r","e">>,  \* 'pipewire'
    <<"p","l","a","s","m","a">>  \* 'plasma'
  >>

weights_source ==
  <<
    <<"Arch Linux News", 200>>,  \* 2.0
    <<"Arch Linux Bugs", 180>>,  \* 1.8
    <<"CachyOS Blog", 190>>,  \* 1.9
    <<"Arch Linux Security", 220>>,  \* 2.2
    <<"CachyOS Kernel Issues", 210>>,  \* 2.1
    <<"Phoronix", 85>>,  \* 0.85
    <<"Reddit r/archlinux", 80>>,  \* 0.8
    <<"Arch Forums", 70>>  \* 0.7
  >>

weights_severity ==
  <<<<"critical", 50>>, <<"high", 25>>, <<"medium", 10>>, <<"low", 0>>>>

source_types_official ==
  <<"Arch Linux News",
    "Arch Linux Bugs",
    "CachyOS Blog",
    "CachyOS Kernel Issues",
    "Arch Linux Security">>

source_types_community ==
  <<"Reddit r/archlinux",
    "Arch Forums",
    "Phoronix">>

\* What `for category, keywords in config['keywords'].items()` binds keywords
\* to, in order, as the sequence of what iterating it yields: the elements of a
\* list, the keys of the dict of semantic groups.
keywords_items ==
  <<keywords_problem,
    keywords_critical_boot_failure,
    keywords_kernel_failure_triggers,
    keywords_help_indicators,
    keywords_debug_keywords,
    keywords_explicit_fix_markers,
    keywords_fix_keywords,
    keywords_strong_positive,
    keywords_discussion,
    keywords_user_space_apps,
    [g \in 1..Len(keywords_semantic_groups) |-> keywords_semantic_groups[g][1]]>>

-----------------------------------------------------------------------------
(* ArchRepoMonitor.__init__ *)

min_confidence_threshold == 35

all_known_packages ==
  [n \in 1..Len(packages_weights) |-> packages_weights[n][1]]

master_stop_list_base ==
  {<<"a">>,
   <<"a","n">>,
   <<"t","h","e">>,
   <<"i","t">>,
   <<"i","s">>,
   <<"t","o">>,
   <<"f","o","r">>,
   <<"i","n">>,
   <<"o","n">>,
   <<"w","i","t","h">>,
   <<"a","n","d">>,
   <<"o","r">>,
   <<"i","f">>,
   <<"u","s","i","n","g">>,
   <<"m","y">>,
   <<"m","e">>,
   <<"f","r","o","m">>,
   <<"f","o","r","m","a","t">>,
   <<"t","h","e","n">>,
   <<"t","h","a","t">>,
   <<"t","h","i","s">>,
   <<"a","f","t","e","r">>,
   <<"b","e","f","o","r","e">>,
   <<"y","o","u">>,
   <<"m","a","i","n">>,
   <<"c","o","r","e">>,
   <<"e","x","t","r","a">>,
   <<"t","e","s","t","i","n","g">>,
   <<"c","a","c","h","y","o","s">>,
   <<"s","o">>}
common_word_stoppers ==
  {<<"e","t","c">>,
   <<"b","u","t">>,
   <<"n","e","e","d","s">>,
   <<"b","o","t","h">>,
   <<"t","o","p">>,
   <<"h","o","n","o","r">>,
   <<"l","a","y","e","r","s">>,
   <<"d","e","c","r","y","p","t","e","d">>,
   <<"s","o","m","e">>,
   <<"o","f">>}
package_triggers ==
  <<<<"p","a","c","k","a","g","e">>,
    <<"u","p","d","a","t","i","n","g">>,
    <<"i","n","s","t","a","l","l","i","n","g">>,
    <<"d","o","w","n","g","r","a","d","e">>,
    <<"f","a","i","l","s"," ","w","i","t","h">>,
    <<"i","s","s","u","e"," ","w","i","t","h">>,
    <<"p","r","o","b","l","e","m"," ","w","i","t","h">>,
    <<"a","f","t","e","r"," ","u","p","d","a","t","i","n","g">>,
    <<"u","p","d","a","t","e"," ","o","f">>,
    <<"u","p","d","a","t","e"," ","t","o">>,
    <<"o","n">>>>

master_stop_list ==
  master_stop_list_base
    \cup UNION {Range(keywords_items[n]) : n \in 1..Len(keywords_items)}

-----------------------------------------------------------------------------
(* _extract_packages *)

\* re.search(r'\b' + re.escape(pkg) + r'\b', text)
search_word(pkg, text) ==
  \E i \in 1..(Len(text) - Len(pkg) + 1) :
    /\ text[i] = pkg[1]
    /\ StartsAt(pkg, text, i)
    /\ WordBoundary(text, i)
    /\ WordBoundary(text, i + Len(pkg))

lowercase_chars == Range(ascii_lowercase)

package_first_chars == lowercase_chars \cup digits

package_chars == lowercase_chars \cup digits \cup {".", "-", "_"}

git_chars == lowercase_chars \cup {"-"}



\* One match of (?:package|...|on)\s+([a-z0-9][a-z0-9\.\-_]+) starting at
\* index i: <<captured group, index after the match>>, or <<>>.
trigger_match(text, i) ==
  IF \E n \in 1..Len(package_triggers) : StartsAt(package_triggers[n], text, i)
    THEN LET trig == package_triggers[
                       CHOOSE n \in 1..Len(package_triggers) :
                         StartsAt(package_triggers[n], text, i)]
             ws    == i + Len(trig)
             start == RunEnd(text, ws, whitespace)
             stop  == RunEnd(text, start, package_chars)
         IN  IF /\ start > ws
                /\ start <= Len(text)
                /\ text[start] \in package_first_chars
                /\ stop - start >= 2
               THEN <<SubSeq(text, start, stop - 1), stop>>
               ELSE <<>>
    ELSE <<>>

\* re.findall of the trigger pattern from index i on: leftmost matches that do
\* not overlap.
RECURSIVE findall_triggered(_, _)
findall_triggered(text, i) ==
  IF i > Len(text) THEN {}
  ELSE LET m == trigger_match(text, i)
       IN  IF m = <<>> THEN findall_triggered(text, i + 1)
           ELSE {m[1]} \cup findall_triggered(text, m[2])

\* The longest run text[i..j-1] of characters of cls, at least least long, that
\* is followed by suffix and a word boundary: the index after the suffix, or 0.
greedy_suffix(text, i, cls, least, suffix) ==
  LET run == RunEnd(text, i, cls)
      js  == {j \in (i + least)..run :
                /\ StartsAt(suffix, text, j)
                /\ WordBoundary(text, j + Len(suffix))}
  IN  IF js = {} THEN 0
      ELSE (CHOOSE j \in js : \A k \in js : k <= j) + Len(suffix)

\* One match of \b([a-z-]{3,}-git|[a-z]{3,}-dkms|[a-z]{2,}hd)\b at index i: the
\* index after the match, or 0.  The alternatives are tried in order.
suffix_match(text, i) ==
  IF ~WordBoundary(text, i) THEN 0
  ELSE LET git  == greedy_suffix(text, i, git_chars, 3,
                                 <<"-","g","i","t">>)
           dkms == greedy_suffix(text, i, lowercase_chars, 3,
                                 <<"-","d","k","m","s">>)
           hd   == greedy_suffix(text, i, lowercase_chars, 2,
                                 <<"h","d">>)
       IN  IF git # 0 THEN git ELSE IF dkms # 0 THEN dkms ELSE hd

RECURSIVE findall_suffixed(_, _)
findall_suffixed(text, i) ==
  IF i > Len(text) THEN {}
  ELSE LET e == suffix_match(text, i)
       IN  IF e = 0 THEN findall_suffixed(text, i + 1)
           ELSE {SubSeq(text, i, e - 1)} \cup findall_suffixed(text, e)

strip_chars == {".", ",", ":", ";", "!", "?", "(", ")", "[", "]", "{", "}"}

\* The pattern candidates of a lower-cased text, stripped and filtered.
filtered_packages(text) ==
  {pkg \in {strip(p, strip_chars) :
              p \in findall_triggered(text, 1) \cup findall_suffixed(text, 1)} :
     /\ pkg \notin master_stop_list
     /\ pkg \notin common_word_stoppers
     /\ ~isdigit(pkg)}

\* The known packages of a lower-cased text.
known_packages(text) ==
  {pkg \in Range(all_known_packages) : search_word(pkg, text)}

extract_lowered(text) == known_packages(text) \cup filtered_packages(text)

_extract_packages(text) == extract_lowered(lower(text))

-----------------------------------------------------------------------------------------------------------------------------------------------------
(* _get_semantic_groups *)

semantic_groups_lowered(text_lower) ==
  {keywords_semantic_groups[g][1] :
     g \in {h \in 1..Len(keywords_semantic_groups) :
              any_in(keywords_semantic_groups[h][2], text_lower)}}

_get_semantic_groups(text) == semantic_groups_lowered(lower(text))

-----------------------------------------------------------------------------
(* _get_severity *)

\* any(p in mentioned_packages for p in category)
any_package(mentioned_packages, category) ==
  \E n \in 1..Len(category) : category[n] \in mentioned_packages

\* Lines 177-185.  The verdict so far is <<severity, reason, is_critical>>; the
\* reason is the tag of the message.
boot_failure_rule(text, source) ==
  IF any_in(keywords_critical_boot_failure, text)
    THEN IF source \in Range(source_types_community)
           THEN <<"high", "boot_failure_community", TRUE>>
           ELSE <<"critical", "boot_failure_official", TRUE>>
    ELSE <<"low", "no_problems", FALSE>>

\* The kernel failure makes the verdict critical on a critical path too.
kernel_failure_rule_on_critical_path(r, text, mentioned_packages) ==
  IF /\ any_package(mentioned_packages, categories_kernel_packages)
     /\ any_in(keywords_kernel_failure_triggers, text)
    THEN <<"critical", "kernel_module_failure", TRUE>>
    ELSE r

\* Lines 187-193.
kernel_failure_rule(r, text, mentioned_packages) ==
  IF /\ ~r[3]
     /\ any_package(mentioned_packages, categories_kernel_packages)
     /\ any_in(keywords_kernel_failure_triggers, text)
    THEN <<"critical", "kernel_module_failure", TRUE>>
    ELSE r

\* Lines 199-210.
package_rule(r, has_problem, mentioned_packages) ==
  IF r[3] THEN r
  ELSE IF \/ any_package(mentioned_packages, categories_critical_system)
          \/ any_package(mentioned_packages, categories_critical_cachyos)
          \/ (any_package(mentioned_packages, categories_kernel_packages)
                /\ has_problem)
    THEN <<"high", "critical_package", FALSE>>
  ELSE IF any_package(mentioned_packages, categories_important)
    THEN <<"medium", "important_package", FALSE>>
  ELSE IF has_problem
    THEN <<"low", "problem_without_package", FALSE>>
  ELSE r

\* Lines 212-219.
app_rule(r, text, mentioned_packages) ==
  IF /\ r[1] \in {"high", "medium"}
     /\ any_in(keywords_user_space_apps, text)
     /\ ~any_package(mentioned_packages, categories_critical_system)
    THEN <<IF r[1] = "high" THEN "medium" ELSE "low", "app_downgrade", r[3]>>
    ELSE r

\* The help request downgrades a critical path too.
help_rule_on_critical_path(r, text) ==
  IF any_in(keywords_help_indicators, text)
    THEN IF r[1] = "high" THEN <<"medium", r[2], r[3]>>
         ELSE IF r[1] = "medium" THEN <<"low", "help_downgrade", r[3]>>
         ELSE r
    ELSE r

\* Lines 221-228.
help_rule(r, text) ==
  IF any_in(keywords_help_indicators, text) /\ ~r[3]
    THEN IF r[1] = "high" THEN <<"medium", r[2], r[3]>>
         ELSE IF r[1] = "medium" THEN <<"low", "help_downgrade", r[3]>>
         ELSE r
    ELSE r

\* Lines 195-230, given the verdict of the first two rules.
severity_after(r, has_problem, text, mentioned_packages) ==
  IF ~has_problem /\ ~r[3]
    THEN <<"low", "no_problem_keyword">>
    ELSE SubSeq(help_rule(app_rule(package_rule(r, has_problem, mentioned_packages), text, mentioned_packages), text), 1, 2)

severity_with(text, source, mentioned_packages) ==
  severity_after(kernel_failure_rule(boot_failure_rule(text, source), text, mentioned_packages), any_in(keywords_problem, text), text, mentioned_packages)

\* Returns <<severity, reason>>.
_get_severity(text, title, source) ==
  severity_with(text, source, _extract_packages(text))

-----------------------------------------------------------------------------
(* _is_potential_fix, _process_entry *)

_is_potential_fix(title, full_text) ==
  \/ any_in(keywords_explicit_fix_markers, title)
  \/ any_in(keywords_fix_keywords, full_text)

RepoIssue(source, title, description, severity, date, url, affected_packages, confidence_score, semantic_groups) ==
  [source |-> source, title |-> title, description |-> description,
   severity |-> severity, date |-> date, url |-> url,
   affected_packages |-> affected_packages,
   confidence_score |-> confidence_score, semantic_groups |-> semantic_groups]

PotentialFix(source, title, date, url, mentioned_packages, semantic_groups) ==
  [source |-> source, title |-> title, date |-> date, url |-> url,
   mentioned_packages |-> mentioned_packages,
   semantic_groups |-> semantic_groups]

\* Lines 285-287: the confidence of a new issue.
issue_confidence(base_confidence, full_text) ==
  IF any_in(keywords_debug_keywords, full_text)
    THEN Min(100, base_confidence + 15)
    ELSE base_confidence

\* full_content[:300] + '...'
issue_description(full_content) ==
  SubSeq(full_content, 1, Min(300, Len(full_content))) \o <<".", ".", ".">>

\* Lines 283-294, given the severity.
issue_or_nothing(severity, name, title, full_content, date, url, base_confidence, full_text, packages, semantic_groups) ==
  IF severity # "low"
    THEN <<Some(RepoIssue(name, title, issue_description(full_content), severity, date, url, packages, issue_confidence(base_confidence, full_text), semantic_groups)), None>>
    ELSE <<None, None>>

\* The discussions are dropped before the fixes are looked for.
process_text_discussion_first(name, title, full_content, date, url, base_confidence, lower_title, full_text, packages, semantic_groups) ==
  IF any_in(keywords_discussion, full_text)
    THEN <<None, None>>
  ELSE IF _is_potential_fix(lower_title, full_text)
    THEN <<None, Some(PotentialFix(name, title, date, url, packages, semantic_groups))>>
  ELSE IF any_in(keywords_strong_positive, full_text)
    THEN <<None, None>>
  ELSE issue_or_nothing(_get_severity(full_text, title, name)[1], name, title, full_content, date, url, base_confidence, full_text, packages, semantic_groups)

\* Lines 272-294, given the lower-cased texts and what was extracted from them.
process_text(name, title, full_content, date, url, base_confidence, lower_title, full_text, packages, semantic_groups) ==
  IF _is_potential_fix(lower_title, full_text)
    THEN <<None, Some(PotentialFix(name, title, date, url, packages, semantic_groups))>>
  ELSE IF any_in(keywords_strong_positive, full_text)
    THEN <<None, None>>
  ELSE IF any_in(keywords_discussion, full_text)
    THEN <<None, None>>
  ELSE issue_or_nothing(_get_severity(full_text, title, name)[1], name, title, full_content, date, url, base_confidence, full_text, packages, semantic_groups)

\* Lines 266-270.
process_lowered(name, title, full_content, date, url, base_confidence, lower_title, full_text) ==
  process_text(name, title, full_content, date, url, base_confidence, lower_title, full_text, _extract_packages(full_text), _get_semantic_groups(full_text))

\* Returns <<issue, fix>>, each None or Some(record).
_process_entry(name, title, full_content, date, url, base_confidence) ==
  process_lowered(name, title, full_content, date, url, base_confidence, lower(title), lower(title) \o <<" ">> \o lower(full_content))

-----------------------------------------------------------------------------
(* _get_title_similarity *)

\* End (exclusive) of the run of characters that are not whitespace from i.
RECURSIVE word_end(_, _)
word_end(s, i) ==
  IF i <= Len(s) /\ s[i] \notin whitespace THEN word_end(s, i + 1) ELSE i

\* set(s.split()): the maximal runs of characters that are not whitespace.
RECURSIVE split(_)
split(s) ==
  IF s = <<>> THEN {}
  ELSE IF Head(s) \in whitespace THEN split(Tail(s))
  ELSE {SubSeq(s, 1, word_end(s, 1) - 1)}
         \cup split(SubSeq(s, word_end(s, 1), Len(s)))

keeps_char(c) == c \in word_chars \/ c \in whitespace

\* set(re.sub(r'[^\w\s]', '', title.lower()).split())
title_words(title) == split(SelectSeq(lower(title), keeps_char))

\* intersection / union as the pair <<intersection, union>>; 0.0 is <<0, 1>>.
jaccard(words1, words2) ==
  IF words1 = {} \/ words2 = {} THEN <<0, 1>>
  ELSE <<Cardinality(words1 \cap words2), Cardinality(words1 \cup words2)>>

_get_title_similarity(title1, title2) ==
  jaccard(title_words(title1), title_words(title2))

\* A fraction <<n, d>> with d > 0 is greater than p / q, q > 0.
Exceeds(f, p, q) == f[1] * q > p * f[2]

-----------------------------------------------------------------------------
(* _deduplicate *)

\* list.sort(key=..., reverse=True) as an insertion sort: descending by key,
\* items of equal key in their original order.  keyed is a sequence of
\* <<key, item>>.
RECURSIVE sort_reverse(_)
sort_reverse(keyed) ==
  IF keyed = <<>> THEN <<>>
  ELSE LET rest == sort_reverse(SubSeq(keyed, 1, Len(keyed) - 1))
           last == keyed[Len(keyed)]
           n    == Cardinality({m \in 1..Len(rest) : rest[m][1] >= last[1]})
       IN  SubSeq(rest, 1, n) \o <<last>> \o SubSeq(rest, n + 1, Len(rest))

\* sorted(..., key=...) ascending, items of equal key in their original order.
RECURSIVE sort_ascending(_)
sort_ascending(keyed) ==
  IF keyed = <<>> THEN <<>>
  ELSE LET rest == sort_ascending(SubSeq(keyed, 1, Len(keyed) - 1))
           last == keyed[Len(keyed)]
           n    == Cardinality({m \in 1..Len(rest) : rest[m][1] <= last[1]})
       IN  SubSeq(rest, 1, n) \o <<last>> \o SubSeq(rest, n + 1, Len(rest))

unkeyed(keyed) == [n \in 1..Len(keyed) |-> keyed[n][2]]

\* isinstance(item, RepoIssue)
is_issue(item) == "confidence_score" \in DOMAIN item

\* sort_key of _deduplicate
sort_key(item, issue) == IF issue THEN item.confidence_score ELSE item.date

Reverse(s) == [n \in 1..Len(s) |-> s[Len(s) + 1 - n]]

\* An ascending sort read backwards: descending by key, but items of equal key
\* in the reverse of their original order.
sorted_then_reversed(items) ==
  Reverse(unkeyed(sort_ascending([n \in 1..Len(items) |->
                    <<sort_key(items[n], is_issue(items[1])), items[n]>>])))

\* items.sort(key=sort_key, reverse=True)
sorted_for_dedup(items) ==
  unkeyed(sort_reverse([n \in 1..Len(items) |->
                          <<sort_key(items[n], is_issue(items[1])), items[n]>>]))

\* Titles that share more than half of their words count as duplicates.
is_duplicate_above_half(item, seen_titles) ==
  \E n \in 1..Len(seen_titles) :
    Exceeds(_get_title_similarity(item.title, seen_titles[n]), 5, 10)

\* any(similarity(item.title, seen_title) > 0.7 for seen_title in seen_titles)
is_duplicate(item, seen_titles) ==
  \E n \in 1..Len(seen_titles) :
    Exceeds(_get_title_similarity(item.title, seen_titles[n]), 7, 10)

\* The loop of lines 404-408 over items, from unique_items and seen_titles.
RECURSIVE dedup_loop(_, _, _)
dedup_loop(items, unique_items, seen_titles) ==
  IF items = <<>> THEN unique_items
  ELSE IF is_duplicate(Head(items), seen_titles)
    THEN dedup_loop(Tail(items), unique_items, seen_titles)
    ELSE dedup_loop(Tail(items), Append(unique_items, Head(items)),
                    Append(seen_titles, Head(items).title))

_deduplicate(items) ==
  IF items = <<>> THEN <<>>
  ELSE dedup_loop(sorted_for_dedup(items), <<>>, <<>>)

-----------------------------------------------------------------------------
(* _calculate_correlation_score *)

\* min(1.0, overlap * 0.5) in halves.
pkg_overlap_score(issue_pkgs, fix_pkgs) ==
  IF issue_pkgs # {} /\ fix_pkgs # {}
    THEN Min(2, Cardinality(issue_pkgs \cap fix_pkgs)
                  + (IF \E p \in Range(all_known_packages) :
                          p \in issue_pkgs \cap fix_pkgs
                       THEN 1 ELSE 0))
    ELSE 0

group_kernel == <<"k","e","r","n","e","l">>

group_system == <<"s","y","s","t","e","m">>

\* context_modifier in quarters.
context_modifier(issue_groups, fix_groups) ==
  IF issue_groups \cap fix_groups # {}
    THEN 2 + Cardinality(issue_groups \cap fix_groups)
  ELSE IF group_kernel \in fix_groups \/ group_system \in fix_groups
    THEN 1
  ELSE IF issue_groups # {} /\ fix_groups # {}
    THEN 0 - 2
  ELSE 0

\* title_sim * 0.5 + overlap * 0.3 + modifier * 0.2 for title_sim = sim[1]/sim[2],
\* overlap = halves/2 and modifier = quarters/4, clamped to [0, 1]: the fraction
\* <<10 * sim[1] + sim[2] * (3 * halves + quarters), 20 * sim[2]>>.
weighted_score(sim, halves, quarters) ==
  <<Max(0, Min(20 * sim[2], 10 * sim[1] + sim[2] * (3 * halves + quarters))),
    20 * sim[2]>>

_calculate_correlation_score(issue, fix) ==
  weighted_score(_get_title_similarity(issue.title, fix.title),
                 pkg_overlap_score(issue.affected_packages, fix.mentioned_packages),
                 context_modifier(issue.semantic_groups, fix.semantic_groups))

-----------------------------------------------------------------------------
(* _correlate_and_filter *)

\* 0.65 in hundredths.
correlation_threshold == 65

issue_id_prefixes ==
  << <<"F","S","#">>,
     <<"i","s","s","u","e","s","/">>,
     <<"t","a","s","k","_","i","d","=">>,
     <<"i","d","=">> >>

\* Whether (?:FS#|issues/|task_id=|id=)(\d+) matches at index i of url: the
\* index of the first digit, or 0.
issue_id_at(url, i) ==
  IF \E n \in 1..Len(issue_id_prefixes) :
       /\ StartsAt(issue_id_prefixes[n], url, i)
       /\ i + Len(issue_id_prefixes[n]) <= Len(url)
       /\ url[i + Len(issue_id_prefixes[n])] \in digits
    THEN i + Len(issue_id_prefixes[
               CHOOSE n \in 1..Len(issue_id_prefixes) :
                 /\ StartsAt(issue_id_prefixes[n], url, i)
                 /\ i + Len(issue_id_prefixes[n]) <= Len(url)
                 /\ url[i + Len(issue_id_prefixes[n])] \in digits])
    ELSE 0

\* re.search(...).group(1) from index i on: Some(digits) of the leftmost match,
\* or None.
RECURSIVE issue_id_from(_, _)
issue_id_from(url, i) ==
  IF i > Len(url) THEN None
  ELSE IF issue_id_at(url, i) # 0
    THEN Some(SubSeq(url, issue_id_at(url, i),
                     RunEnd(url, issue_id_at(url, i), digits) - 1))
    ELSE issue_id_from(url, i + 1)

issue_id_of(url) == issue_id_from(url, 1)

\* The reference words of the pattern, lower-cased for re.IGNORECASE.
reference_prefixes ==
  << <<"f","i","x","e","s"," ">>,
     <<"r","e","s","o","l","v","e","s"," ">>,
     <<"c","l","o","s","e","s"," ">>,
     <<"f","s","#">>,
     <<"#">> >>

\* re.search(f'(?:fixes |resolves |closes |FS#|#){issue_id}\\b', title,
\* re.IGNORECASE) on the lower-cased title.
references_lowered(title, issue_id) ==
  \E n \in 1..Len(reference_prefixes) :
    \E i \in 1..Len(title) :
      /\ StartsAt(reference_prefixes[n] \o issue_id, title, i)
      /\ WordBoundary(title, i + Len(reference_prefixes[n]) + Len(issue_id))

\* The condition of line 458, for issue_id None or Some(digits).
exact_reference(issue_id, fix) ==
  /\ issue_id # None
  /\ \/ references_lowered(lower(fix.title), issue_id[1])
     \/ In(issue_id[1], fix.url)

\* The weighted score alone, whatever the fix refers to.
weighted_score_only(issue, issue_id, fix) ==
  _calculate_correlation_score(issue, fix)

\* final_score of lines 457-461: 1.0 is <<1, 1>>.
final_score(issue, issue_id, fix) ==
  IF exact_reference(issue_id, fix)
    THEN <<1, 1>>
    ELSE _calculate_correlation_score(issue, fix)

\* a > b for fractions of positive denominator.
Greater(a, b) == a[1] * b[2] > b[1] * a[2]

\* The first fix above the threshold is kept, later ones are not compared.
first_match(best, fix, score) ==
  IF best[1] = None /\ Greater(score, best[2]) THEN <<Some(fix), score>> ELSE best

\* Among fixes of equal score the last one is kept.
last_match(best, fix, score) ==
  IF ~Greater(best[2], score) THEN <<Some(fix), score>> ELSE best

\* The update of lines 467-469: best is <<best_match_fix, highest_score>>.
better_match(best, fix, score) ==
  IF Greater(score, best[2]) THEN <<Some(fix), score>> ELSE best

\* Only a fix that was used is skipped, whatever its date.
skipped_when_used(issue, fix, used_fix_urls) == fix.url \in used_fix_urls

\* Once a fix is used, no fix is left for the problems visited later.
skipped_after_any_use(issue, fix, used_fix_urls) ==
  fix.date < issue.date \/ used_fix_urls # {}

\* The condition of line 454.
skipped(issue, fix, used_fix_urls) ==
  fix.date < issue.date \/ fix.url \in used_fix_urls

\* The loop of lines 453-469 over the sorted fixes: <<best_match_fix,
\* highest_score>>.
RECURSIVE best_match(_, _, _, _, _)
best_match(issue, issue_id, fixes, used_fix_urls, best) ==
  IF fixes = <<>> THEN best
  ELSE IF skipped(issue, Head(fixes), used_fix_urls)
    THEN best_match(issue, issue_id, Tail(fixes), used_fix_urls, best)
    ELSE best_match(issue, issue_id, Tail(fixes), used_fix_urls,
                    better_match(best, Head(fixes),
                                 final_score(issue, issue_id, Head(fixes))))

ResolvedIssue(issue, fix, correlation_score) ==
  [issue |-> issue, fix |-> fix, correlation_score |-> correlation_score]

\* The match is recorded, but the fix stays eligible.
record_match_only(acc, issue, best) ==
  IF best[1] # None
    THEN <<acc[1], Append(acc[2], ResolvedIssue(issue, best[1][1], best[2])),
           acc[3]>>
    ELSE <<Append(acc[1], issue), acc[2], acc[3]>>

\* Lines 471-476: acc is <<unresolved_issues, resolved_issues, used_fix_urls>>.
record_match(acc, issue, best) ==
  IF best[1] # None
    THEN <<acc[1], Append(acc[2], ResolvedIssue(issue, best[1][1], best[2])),
           acc[3] \cup {best[1][1].url}>>
    ELSE <<Append(acc[1], issue), acc[2], acc[3]>>

\* The loop of lines 446-476 over the sorted issues, with the threshold as the
\* fraction threshold / 100.
RECURSIVE correlate_loop(_, _, _, _)
correlate_loop(issues, fixes, threshold, acc) ==
  IF issues = <<>> THEN acc
  ELSE correlate_loop(Tail(issues), fixes, threshold,
         record_match(acc, Head(issues),
           best_match(Head(issues), issue_id_of(Head(issues).url), fixes,
                      acc[3], <<None, <<threshold, 100>>>>)))

\* sorted(records, key=lambda r: r.date)
sorted_by_date(records) ==
  unkeyed(sort_ascending([n \in 1..Len(records) |->
                            <<records[n].date, records[n]>>]))

\* Every fix that scores above zero may be taken.
correlate_without_threshold(issues, fixes, threshold) ==
  correlate_loop(sorted_by_date(issues), sorted_by_date(fixes), 0,
                 <<<<>>, <<>>, {}>>)

\* _correlate_and_filter with correlation_threshold = threshold / 100.
correlate_with(issues, fixes, threshold) ==
  correlate_loop(sorted_by_date(issues), sorted_by_date(fixes), threshold,
                 <<<<>>, <<>>, {}>>)

\* Returns <<unresolved_issues, resolved_issues>>.
_correlate_and_filter(issues, fixes) ==
  SubSeq(correlate_with(issues, fixes, correlation_threshold), 1, 2)

-----------------------------------------------------------------------------
(* Texts of the model: phrases joined by single spaces *)

\* ' '.join(phrases)
RECURSIVE join(_)
join(phrases) ==
  IF phrases = <<>> THEN <<>>
  ELSE IF Len(phrases) = 1 THEN phrases[1]
  ELSE phrases[1] \o <<" ">> \o join(Tail(phrases))

\* All sequences over S of length at most n.
RECURSIVE SeqsUpTo(_, _)
SeqsUpTo(S, n) ==
  IF n = 0 THEN {<<>>}
  ELSE LET shorter == SeqsUpTo(S, n - 1)
       IN  shorter \cup {Append(s, x) : s \in shorter, x \in S}

\* The lists of at most n distinct records of S: the records of a list are
\* distinct objects, which the model tells apart by their value.
ListsUpTo(S, n) ==
  {s \in SeqsUpTo(S, n) : \A j, k \in 1..Len(s) : j # k => s[j] # s[k]}

\* The issues, and the fixes, that _process_entry builds from the titles of a
\* set, with an empty body.
built_issues(name, titles, dates, base_confidence) ==
  {b[1][1] : b \in {c \in {_process_entry(name, t[1], <<>>, d, t[2], base_confidence) : t \in titles, d \in dates} : c[1] # None}}

built_fixes(name, titles, dates) ==
  {b[2][1] : b \in {c \in {_process_entry(name, t[1], <<>>, d, t[2], 0) : t \in titles, d \in dates} : c[2] # None}}

-----------------------------------------------------------------------------
(* The record builder on one record *)

\* Bound: the number of phrases in a body.
MaxBodyPhrases == 2

title_phrases ==
  { <<>>,
    <<"[","S","O","L","V","E","D","]">>,
    <<"k","e","r","n","e","l"," ","p","a","n","i","c">>,
    <<"p","a","c","m","a","n"," ","b","r","o","k","e","n">> }

body_phrases ==
  { <<"[","s","o","l","v","e","d","]">>,
    <<"f","i","x","e","d">>,
    <<"S","t","e","a","m">>,
    <<"k","e","r","n","e","l"," ","p","a","n","i","c">>,
    <<"p","a","c","m","a","n">>,
    <<"m","e","s","a"," ","c","r","a","s","h">>,
    <<"h","e","l","p">>,
    <<"p","o","l","l">>,
    <<"i","s","s","u","e"," ","w","i","t","h"," ","s","s","d">>,
    <<"l","i","n","u","x"," ","m","o","d","u","l","e"," ","b","r","o","k","e","n">> }

\* An official source, a community source and a source in neither list.
build_sources == {"Arch Linux News", "Reddit r/archlinux", "Planet Arch"}

build_url == <<"u">>

InitBuild ==
  /\ pc = "build"
  /\ \E name \in build_sources, title \in title_phrases,
        phrases \in SeqsUpTo(body_phrases, MaxBodyPhrases) :
       entry = [name |-> name, title |-> title, body |-> join(phrases),
                date |-> 0, url |-> build_url, base_confidence |-> 90]
  /\ built = <<None, None>>
  /\ all_issues_raw = <<>>
  /\ all_fixes_raw = <<>>
  /\ dedup_issues = <<>>
  /\ dedup_fixes = <<>>
  /\ unresolved = <<>>
  /\ resolved = <<>>
  /\ safety_status = None
  /\ fetched = None
  /\ errors = <<>>

ProcessEntry ==
  /\ pc = "build"
  /\ built' = _process_entry(entry.name, entry.title, entry.body, entry.date, entry.url, entry.base_confidence)
  /\ pc' = "built"
  /\ UNCHANGED <<fetched, errors, entry, all_issues_raw, all_fixes_raw, dedup_issues,
                 dedup_fixes, unresolved, resolved, safety_status>>

NextBuild == ProcessEntry

SpecBuild == InitBuild /\ [][NextBuild]_vars

-----------------------------------------------------------------------------
(* The deduplicator on one list *)

\* Bound: the length of the list handed to _deduplicate.
MaxItems == 3

\* <<title, url>>; the first two titles share 4 of 5 words, and so do the last
\* two, while the first and the last share 3 of 5.
dedup_issue_titles ==
  { << <<"p","a","c","m","a","n"," ","g","p","g"," ","k","e","y"," ","e","r","r","o","r">>, <<"u","/","1">> >>,
    << <<"P","a","c","m","a","n",":"," ","g","p","g"," ","k","e","y"," ","e","r","r","o","r"," ","t","o","d","a","y">>, <<"u","/","2">> >>,
    << <<"p","a","c","m","a","n"," ","g","p","g"," ","e","r","r","o","r"," ","t","o","d","a","y">>, <<"u","/","3">> >> }

dedup_fix_titles ==
  { << <<"p","a","c","m","a","n"," ","g","p","g"," ","k","e","y"," ","f","i","x">>, <<"f","/","1">> >>,
    << <<"P","a","c","m","a","n",":"," ","g","p","g"," ","k","e","y"," ","f","i","x"," ","t","o","d","a","y">>, <<"f","/","2">> >>,
    << <<"p","a","c","m","a","n"," ","g","p","g"," ","f","i","x"," ","t","o","d","a","y">>, <<"f","/","3">> >> }

dedup_issue_pool ==
  built_issues("Arch Forums", dedup_issue_titles, {0}, 75)
    \cup built_issues("Arch Linux News", dedup_issue_titles, {0}, 95)

dedup_fix_pool == built_fixes("Arch Forums", dedup_fix_titles, {0, 1})

InitDedupe ==
  /\ pc = "dedupe"
  /\ \/ /\ all_issues_raw \in ListsUpTo(dedup_issue_pool, MaxItems)
        /\ all_fixes_raw = <<>>
     \/ /\ all_issues_raw = <<>>
        /\ all_fixes_raw \in ListsUpTo(dedup_fix_pool, MaxItems)
  /\ entry = None
  /\ built = <<None, None>>
  /\ dedup_issues = <<>>
  /\ dedup_fixes = <<>>
  /\ unresolved = <<>>
  /\ resolved = <<>>
  /\ safety_status = None
  /\ fetched = None
  /\ errors = <<>>

\* Every issue goes on, whatever its confidence.
all_issues(issues) == issues

\* Line 500.
confident_issues(issues) ==
  SelectSeq(issues, LAMBDA i : i.confidence_score >= min_confidence_threshold)

\* Lines 500-502 of check_repo_status.
Deduplicate ==
  /\ pc = "dedupe"
  /\ dedup_issues' = _deduplicate(confident_issues(all_issues_raw))
  /\ dedup_fixes' = _deduplicate(all_fixes_raw)
  /\ pc' = "deduped"
  /\ UNCHANGED <<fetched, errors, entry, built, all_issues_raw, all_fixes_raw, unresolved,
                 resolved, safety_status>>

NextDedupe == Deduplicate

SpecDedupe == InitDedupe /\ [][NextDedupe]_vars

-----------------------------------------------------------------------------
(* The correlator on one pair of lists *)

\* Bounds: the lengths of the lists handed to _correlate_and_filter.
MaxIssues == 2

MaxFixes == 2

\* <<title, url>>
correlate_issue_titles ==
  { << <<"p","a","c","m","a","n"," ","b","r","o","k","e","n">>,
       <<"i","s","s","u","e","s","/","4","8","2">> >>,
    << <<"p","a","c","m","a","n"," ","c","r","a","s","h">>, <<"u","/","1">> >> }

correlate_fix_titles ==
  { << <<"p","a","c","m","a","n"," ","b","r","o","k","e","n"," ","c","r","a","s","h"," ","f","i","x","e","d">>, <<"f","/","1">> >>,
    << <<"F","i","x","e","s"," ","#","4","8","2">>, <<"f","/","2">> >>,
    << <<"p","a","c","m","a","n"," ","c","r","a","s","h"," ","f","i","x","e","d">>, <<"f","/","3">> >> }

correlate_dates == {0, 1}

correlate_issue_pool ==
  built_issues("Arch Forums", correlate_issue_titles, correlate_dates, 75)

correlate_fix_pool ==
  built_fixes("Arch Forums", correlate_fix_titles, correlate_dates)

InitCorrelate ==
  /\ pc = "correlate"
  /\ dedup_issues \in ListsUpTo(correlate_issue_pool, MaxIssues)
  /\ dedup_fixes \in ListsUpTo(correlate_fix_pool, MaxFixes)
  /\ entry = None
  /\ built = <<None, None>>
  /\ all_issues_raw = <<>>
  /\ all_fixes_raw = <<>>
  /\ unresolved = <<>>
  /\ resolved = <<>>
  /\ safety_status = None
  /\ fetched = None
  /\ errors = <<>>

\* Line 505 of check_repo_status.
Correlate ==
  /\ pc = "correlate"
  /\ unresolved' = _correlate_and_filter(dedup_issues, dedup_fixes)[1]
  /\ resolved' = _correlate_and_filter(dedup_issues, dedup_fixes)[2]
  /\ pc' = "correlated"
  /\ UNCHANGED <<fetched, errors, entry, built, all_issues_raw, all_fixes_raw, dedup_issues,
                 dedup_fixes, safety_status>>

NextCorrelate == Correlate

SpecCorrelate == InitCorrelate /\ [][NextCorrelate]_vars

-----------------------------------------------------------------------------
(* Properties of the correlator *)

\* C1: after a run of the correlator no two Resolutions hold the same Fix and
\* no two hold the same Problem: a matched Fix is not matched again for a
\* Problem visited later.
C1_OneToOne ==
  pc = "correlated" =>
    \A j, k \in 1..Len(resolved) :
      j # k => /\ resolved[j].fix # resolved[k].fix
               /\ resolved[j].issue # resolved[k].issue

\* Two Problems are resolved, and the Fix of the first visited is the better
\* match of the second one too, which had to take another Fix.
C1_Witness ==
  /\ pc = "correlated"
  /\ Len(resolved) = 2
  /\ resolved[1].fix.date >= resolved[2].issue.date
  /\ Greater(final_score(resolved[2].issue, issue_id_of(resolved[2].issue.url), resolved[1].fix),
             resolved[2].correlation_score)

\* C2: in every Resolution the Fix is published at or after the Problem, also
\* when the pair was matched by the exact reference with score 1.0.
C2_FixNotOlder ==
  pc = "correlated" =>
    \A k \in 1..Len(resolved) : resolved[k].fix.date >= resolved[k].issue.date

\* A Problem stays unresolved although an older Fix refers to its identifier.
C2_Witness ==
  /\ pc = "correlated"
  /\ \E j \in 1..Len(unresolved) : \E k \in 1..Len(dedup_fixes) :
       /\ dedup_fixes[k].date < unresolved[j].date
       /\ exact_reference(issue_id_of(unresolved[j].url), dedup_fixes[k])

\* The thresholds, in hundredths, between which the runs are compared.
thresholds == {50, 65, 75}

resolutions_at(threshold) ==
  correlate_with(dedup_issues, dedup_fixes, threshold)[2]

\* C3: for the same problems and fixes and thresholds t1 < t2, the run with
\* t2 produces no more Resolutions than the run with t1.
C3_ThresholdMonotone ==
  pc = "correlated" =>
    /\ resolved = resolutions_at(correlation_threshold)
    /\ \A t1, t2 \in thresholds :
         t1 < t2 => Len(resolutions_at(t2)) <= Len(resolutions_at(t1))

\* Under the higher threshold the first Problem is left unmatched and the Fix
\* it takes under the lower threshold goes to a later Problem.
C3_Witness ==
  /\ pc = "correlated"
  /\ \E t1, t2 \in thresholds :
       /\ t1 < t2
       /\ Len(resolutions_at(t1)) = 1
       /\ Len(resolutions_at(t2)) = 1
       /\ resolutions_at(t1)[1].fix = resolutions_at(t2)[1].fix
       /\ resolutions_at(t1)[1].issue.date < resolutions_at(t2)[1].issue.date

\* The URLs of the fixes consumed before the k-th Problem in date order is
\* visited.
used_before(k) ==
  {resolved[j].fix.url : j \in {m \in 1..Len(resolved) :
     \E n \in 1..(k - 1) : sorted_by_date(dedup_issues)[n] = resolved[m].issue}}

has_eligible_reference(issue, used) ==
  \E k \in 1..Len(dedup_fixes) :
    /\ dedup_fixes[k].date >= issue.date
    /\ dedup_fixes[k].url \notin used
    /\ exact_reference(issue_id_of(issue.url), dedup_fixes[k])

\* C5: a Problem whose URL yields an identifier, with a Fix that is published
\* at or after it, not yet consumed, and refers to the identifier in its
\* title or URL, is resolved with correlation_score exactly 1.0.
C5_ExactReference ==
  pc = "correlated" =>
    \A k \in 1..Len(dedup_issues) :
      has_eligible_reference(sorted_by_date(dedup_issues)[k], used_before(k)) =>
        \E j \in 1..Len(resolved) :
          /\ resolved[j].issue = sorted_by_date(dedup_issues)[k]
          /\ resolved[j].correlation_score[1] = resolved[j].correlation_score[2]

\* A Resolution by exact reference of a pair whose weighted score is zero.
C5_Witness ==
  /\ pc = "correlated"
  /\ \E j \in 1..Len(resolved) :
       /\ resolved[j].correlation_score = <<1, 1>>
       /\ exact_reference(issue_id_of(resolved[j].issue.url), resolved[j].fix)
       /\ _calculate_correlation_score(resolved[j].issue, resolved[j].fix)[1] = 0

-----------------------------------------------------------------------------
(* Properties of the deduplicator *)

\* C4: deduplicating the output of the deduplicator returns the same items in
\* the same order, for a list of problems and for a list of fixes.
C4_Idempotent ==
  pc = "deduped" =>
    /\ _deduplicate(dedup_issues) = dedup_issues
    /\ _deduplicate(dedup_fixes) = dedup_fixes

\* Of three items one was removed as the duplicate of a kept item, and two of
\* equal sort key were kept.
C4_Witness ==
  /\ pc = "deduped"
  /\ \/ /\ Len(all_issues_raw) = 3
        /\ Len(dedup_issues) = 2
        /\ dedup_issues[1].confidence_score = dedup_issues[2].confidence_score
     \/ /\ Len(all_fixes_raw) = 3
        /\ Len(dedup_fixes) = 2
        /\ dedup_fixes[1].date = dedup_fixes[2].date

-----------------------------------------------------------------------------
(* _analyze_update_safety *)

\* datetime.now(), in whole days.
now == 10

\* dict.get(key, default) on a sequence of <<key, value>>.
dict_get(table, key, default) ==
  IF \E n \in 1..Len(table) : table[n][1] = key
    THEN table[CHOOSE n \in 1..Len(table) : table[n][1] = key][2]
    ELSE default

RECURSIVE GCD(_, _)
GCD(a, b) == IF b = 0 THEN a ELSE GCD(b, a % b)

\* The fraction n / d, d > 0, n >= 0, in lowest terms.
frac(n, d) == <<n \div GCD(n, d), d \div GCD(n, d)>>

frac_mul(f, g) == frac(f[1] * g[1], f[2] * g[2])

frac_add(f, g) == frac(f[1] * g[2] + g[1] * f[2], f[2] * g[2])

\* b ** n for n >= 0.
RECURSIVE power(_, _)
power(b, n) == IF n = 0 THEN 1 ELSE b * power(b, n - 1)

\* Line 530.
base_score(issue) == dict_get(weights_severity, issue.severity, 0)

\* Line 531, as a fraction.
source_weight(issue) == frac(dict_get(weights_source, issue.source, 100), 100)

\* The weights of line 534, in hundredths: the list is [1.0] without packages.
pkg_weights_of(issue) ==
  IF issue.affected_packages = {} THEN {100}
  ELSE {dict_get(packages_weights, p, 100) : p \in issue.affected_packages}

\* max(...) of line 534, in hundredths.
max_pkg_weight(issue) ==
  CHOOSE w \in pkg_weights_of(issue) : \A v \in pkg_weights_of(issue) : v <= w

\* Line 536.
is_app_specific(issue) ==
  any_in(keywords_user_space_apps, lower(issue.title) \o lower(issue.description))

\* Line 537.
is_critical_involved(issue) ==
  \E n \in 1..Len(categories_critical_system) :
    categories_critical_system[n] \in issue.affected_packages

\* Lines 539-541: the weight of the package after the correction, as a fraction.
corrected_pkg_weight(issue) ==
  IF is_app_specific(issue) /\ ~is_critical_involved(issue) /\ issue.severity # "critical"
    THEN frac(max_pkg_weight(issue) + 100, 200)
    ELSE frac(max_pkg_weight(issue), 100)

\* Line 544 for an age of whole days: 0.92 ** age = (23 / 25) ** age.
time_decay(issue) ==
  IF now >= issue.date
    THEN frac(power(23, now - issue.date), power(25, now - issue.date))
    ELSE frac(power(25, issue.date - now), power(23, issue.date - now))

\* Line 545, as an exact fraction.
issue_danger(issue) ==
  frac_mul(frac_mul(frac_mul(frac(base_score(issue), 1), source_weight(issue)),
                    frac(issue.confidence_score, 100)),
           frac_mul(time_decay(issue), corrected_pkg_weight(issue)))

\* Line 546 over the list: the sum of the dangers.
RECURSIVE danger_sum(_)
danger_sum(issues) ==
  IF issues = <<>> THEN <<0, 1>>
  ELSE frac_add(danger_sum(SubSeq(issues, 1, Len(issues) - 1)),
                issue_danger(issues[Len(issues)]))

\* Lines 549-550.
count_of(issues, severity) ==
  Cardinality({n \in 1..Len(issues) : issues[n].severity = severity})

\* Lines 551-552.
affected_critical_packages(issues) ==
  UNION {{p \in issues[n].affected_packages : p \in Range(all_known_packages)} :
           n \in {m \in 1..Len(issues) : issues[m].severity \in {"critical", "high"}}}

\* The thresholds are not strict: a score of 100 is already DANGEROUS.
level_at_or_above(danger_score) ==
  IF ~Greater(<<100, 1>>, danger_score) THEN "DANGEROUS"
  ELSE IF ~Greater(<<55, 1>>, danger_score) THEN "RISKY"
  ELSE IF ~Greater(<<25, 1>>, danger_score) THEN "CAUTION"
  ELSE "SAFE"

\* Lines 554-557.
level_of(danger_score) ==
  IF Greater(danger_score, <<100, 1>>) THEN "DANGEROUS"
  ELSE IF Greater(danger_score, <<55, 1>>) THEN "RISKY"
  ELSE IF Greater(danger_score, <<25, 1>>) THEN "CAUTION"
  ELSE "SAFE"

\* int(x) of a fraction x >= 0: the fraction is dropped.
truncated(f) == f[1] \div f[2]

\* round(x) of a fraction x >= 0: to the nearest integer, a half to the even one.
round(f) ==
  IF 2 * (f[1] % f[2]) > f[2] THEN f[1] \div f[2] + 1
  ELSE IF 2 * (f[1] % f[2]) < f[2] THEN f[1] \div f[2]
  ELSE IF (f[1] \div f[2]) % 2 = 0 THEN f[1] \div f[2]
  ELSE f[1] \div f[2] + 1

_analyze_update_safety(issues) ==
  [level |-> level_of(danger_sum(issues)),
   danger_score |-> round(danger_sum(issues)),
   critical_issues |-> count_of(issues, "critical"),
   high_issues |-> count_of(issues, "high"),
   affected_critical_packages |-> affected_critical_packages(issues)]

\* Line 509: the unresolved issues by severity weight plus confidence,
\* descending.
sorted_unresolved(issues) ==
  unkeyed(sort_reverse([n \in 1..Len(issues) |->
    <<dict_get(weights_severity, issues[n].severity, 0) + issues[n].confidence_score, issues[n]>>]))

-----------------------------------------------------------------------------
(* The risk aggregator on one list *)

\* Bound: the number of unresolved issues handed to _analyze_update_safety.
MaxUnresolved == 2

risk_titles ==
  { << <<"k","e","r","n","e","l"," ","p","a","n","i","c">>, <<"u","/","1">> >>,
    << <<"k","e","r","n","e","l"," ","p","a","n","i","c"," ","d","m","e","s","g">>, <<"u","/","2">> >>,
    << <<"m","e","s","a"," ","c","r","a","s","h">>, <<"u","/","3">> >>,
    << <<"l","i","n","u","x"," ","s","t","e","a","m"," ","c","r","a","s","h">>, <<"u","/","4">> >> }

risk_dates == {now - 1, now}

risk_pool ==
  built_issues("Arch Linux News", risk_titles, risk_dates, 95)
    \cup built_issues("Reddit r/archlinux", risk_titles, risk_dates, 80)

InitRisk ==
  /\ pc = "assess"
  /\ unresolved \in ListsUpTo(risk_pool, MaxUnresolved)
  /\ entry = None
  /\ built = <<None, None>>
  /\ all_issues_raw = <<>>
  /\ all_fixes_raw = <<>>
  /\ dedup_issues = <<>>
  /\ dedup_fixes = <<>>
  /\ resolved = <<>>
  /\ safety_status = None
  /\ fetched = None
  /\ errors = <<>>

\* Lines 509-511 of check_repo_status.
Assess ==
  /\ pc = "assess"
  /\ unresolved' = sorted_unresolved(unresolved)
  /\ safety_status' = Some(_analyze_update_safety(sorted_unresolved(unresolved)))
  /\ pc' = "assessed"
  /\ UNCHANGED <<fetched, errors, entry, built, all_issues_raw, all_fixes_raw, dedup_issues,
                 dedup_fixes, resolved>>

NextRisk == Assess

SpecRisk == InitRisk /\ [][NextRisk]_vars

\* C10: the level is DANGEROUS iff the total danger is above 100, RISKY iff it
\* is above 55 and at most 100, CAUTION iff it is above 25 and at most 55, and
\* SAFE iff it is at most 25; no unresolved issue gives SAFE with score 0.
C10_LevelThresholds ==
  pc = "assessed" =>
    /\ safety_status[1].level = "DANGEROUS" <=> Greater(danger_sum(unresolved), <<100, 1>>)
    /\ safety_status[1].level = "RISKY" <=>
         /\ Greater(danger_sum(unresolved), <<55, 1>>)
         /\ ~Greater(danger_sum(unresolved), <<100, 1>>)
    /\ safety_status[1].level = "CAUTION" <=>
         /\ Greater(danger_sum(unresolved), <<25, 1>>)
         /\ ~Greater(danger_sum(unresolved), <<55, 1>>)
    /\ safety_status[1].level = "SAFE" <=> ~Greater(danger_sum(unresolved), <<25, 1>>)
    /\ (unresolved = <<>> =>
          safety_status[1].level = "SAFE" /\ safety_status[1].danger_score = 0)

\* A total of exactly 100 is reported as RISKY.
C10_Witness ==
  /\ pc = "assessed"
  /\ danger_sum(unresolved) = <<100, 1>>
  /\ safety_status[1].level = "RISKY"

-----------------------------------------------------------------------------
(* _fetch_feed, fetch_reddit, fetch_github_issues *)

\* Lines 309-310, 339-340: acc is <<issues, fixes, raised>>, processed is the
\* pair that _process_entry returns.
append_built(acc, processed) ==
  <<IF processed[1] # None THEN Append(acc[1], processed[1][1]) ELSE acc[1],
    IF processed[2] # None THEN Append(acc[2], processed[2][1]) ELSE acc[2],
    acc[3]>>

\* Lines 311-313, 341-343, 382-384: the handler of the try that encloses the
\* request and the whole loop logs the error, and the function returns what
\* it has collected so far.
except(acc) == <<acc[1], acc[2], TRUE>>

\* A record of a source is the mapping the parser returns: keys is the set of
\* keys it has, and a field whose key is absent holds no value. dict.get of
\* lines 303, 307, 324, 326, 336, 356, 361, 366, 376.
get(d, key, default) == IF key \in d.keys THEN d[key] ELSE default

\* Line 307: entry.title and entry.link raise when the entry has no such key.
feed_entry_raises(e) == "title" \notin e.keys \/ "link" \notin e.keys

\* Lines 306-310 for one entry that does not raise: published is a day, so
\* (now - published).days is now - published.
feed_entry(name, e, confidence, days_limit, acc) ==
  append_built(acc, _process_entry(name, e.title, get(e, "summary", <<>>), get(e, "published_parsed", now), e.link, confidence))

\* The loop of line 302.
RECURSIVE feed_loop(_, _, _, _, _)
feed_loop(name, entries, confidence, days_limit, acc) ==
  IF entries = <<>> THEN acc
  ELSE IF now - get(Head(entries), "published_parsed", now) > days_limit
    THEN feed_loop(name, Tail(entries), confidence, days_limit, acc)
  ELSE IF feed_entry_raises(Head(entries)) THEN except(acc)
  ELSE feed_loop(name, Tail(entries), confidence, days_limit,
                 feed_entry(name, Head(entries), confidence, days_limit, acc))

\* Returns <<issues, fixes, raised>>, raised telling whether line 312 logged an
\* error; feed.raised is feedparser.parse(url) raising, feed.records is
\* feed.entries.
_fetch_feed(name, feed, confidence, days_limit) ==
  IF feed.raised THEN except(<<<<>>, <<>>, FALSE>>)
  ELSE feed_loop(name, feed.records, confidence, days_limit, <<<<>>, <<>>, FALSE>>)

\* Line 326: post_data.get('title', '').
is_potentially_critical(post_data) ==
  any_in(keywords_critical_boot_failure,
         lower(get(post_data, "title", <<>>)))

\* Line 333.
reddit_confidence(post_data) ==
  Min(100, 30 + (get(post_data, "score", 0) * 4) + (get(post_data, "num_comments", 0) * 2))

reddit_prefix ==
  <<"h","t","t","p","s",":","/","/","r","e","d","d","i","t",".","c","o","m">>

\* Lines 327-328.
reddit_skipped(post_data) ==
  ~is_potentially_critical(post_data) /\ (get(post_data, "score", 0) < 2 /\ get(post_data, "num_comments", 0) < 2)

\* Lines 336-337: post_data['title'] and post_data['permalink'].
reddit_entry_raises(post_data) ==
  "title" \notin post_data.keys \/ "permalink" \notin post_data.keys

\* Lines 333-340 for one post that does not raise.
reddit_post(name, post_data, acc) ==
  append_built(acc, _process_entry(name, post_data.title, get(post_data, "selftext", <<>>), post_data.created_utc, reddit_prefix \o post_data.permalink, reddit_confidence(post_data)))

\* The loop of line 322; post_data['created_utc'] of line 330 raises when the
\* key is absent.
RECURSIVE reddit_loop(_, _, _)
reddit_loop(name, posts, acc) ==
  IF posts = <<>> THEN acc
  ELSE IF reddit_skipped(Head(posts)) THEN reddit_loop(name, Tail(posts), acc)
  ELSE IF "created_utc" \notin Head(posts).keys THEN except(acc)
  ELSE IF Head(posts).created_utc < now - 3 THEN reddit_loop(name, Tail(posts), acc)
  ELSE IF reddit_entry_raises(Head(posts)) THEN except(acc)
  ELSE reddit_loop(name, Tail(posts), reddit_post(name, Head(posts), acc))

\* Returns <<issues, fixes, raised>>; response.raised is the request, the status
\* check or the decoding of lines 320-322 raising, response.records is
\* response.json()['data']['children'].
fetch_reddit(name, response) ==
  IF response.raised THEN except(<<<<>>, <<>>, FALSE>>)
  ELSE reddit_loop(name, response.records, <<<<>>, <<>>, FALSE>>)

\* Line 366: issue_data.get('comments', 0).
github_confidence(issue_data) ==
  Min(95, 80 + (get(issue_data, "comments", 0) * 3))

\* Line 376: issue_data.get('labels', []).
labels_of(issue_data) == {lower(label) : label \in get(issue_data, "labels", {})}

\* Lines 377-380.
label_override(issue, labels) ==
  IF <<"c","r","i","t","i","c","a","l">> \in labels \/ <<"r","e","g","r","e","s","s","i","o","n">> \in labels
    THEN [issue EXCEPT !.severity = "critical", !.confidence_score = 100]
  ELSE IF <<"b","u","g">> \in labels /\ issue.severity # "critical"
    THEN [issue EXCEPT !.severity = "high", !.confidence_score = 100]
  ELSE issue

\* Lines 373-374.
github_relabelled(issue, packages, semantic_groups) ==
  [issue EXCEPT !.affected_packages = packages, !.semantic_groups = semantic_groups]

\* Lines 368-381 for an open issue.
github_open(name, issue_data, full_text, acc, processed) ==
  IF processed[1] = None THEN acc
  ELSE <<Append(acc[1], label_override(github_relabelled(processed[1][1], _extract_packages(full_text), _get_semantic_groups(full_text)), labels_of(issue_data))), acc[2], acc[3]>>

\* Lines 358-381 for one issue that does not raise, with full_text of line 357.
github_issue(name, issue_data, full_text, acc) ==
  IF get(issue_data, "state", "") = "closed"
    THEN <<acc[1], Append(acc[2], PotentialFix(name, issue_data.title, issue_data.created_at, issue_data.html_url, _extract_packages(full_text), _get_semantic_groups(full_text))), acc[3]>>
    ELSE github_open(name, issue_data, full_text, acc,
                     _process_entry(name, issue_data.title, get(issue_data, "body", <<>>), issue_data.created_at, issue_data.html_url, github_confidence(issue_data)))

\* Lines 356, 363, 369: issue_data['title'] and issue_data['html_url'].
github_entry_raises(issue_data) ==
  "title" \notin issue_data.keys \/ "html_url" \notin issue_data.keys

\* The loop of line 352; issue_data['created_at'] of line 353 raises when the
\* key is absent.
RECURSIVE github_loop(_, _, _)
github_loop(name, issues, acc) ==
  IF issues = <<>> THEN acc
  ELSE IF "created_at" \notin Head(issues).keys THEN except(acc)
  ELSE IF now - Head(issues).created_at > 21 THEN github_loop(name, Tail(issues), acc)
  ELSE IF github_entry_raises(Head(issues)) THEN except(acc)
  ELSE github_loop(name, Tail(issues), github_issue(name, Head(issues), Head(issues).title \o <<" ">> \o get(Head(issues), "body", <<>>), acc))

\* Returns <<issues, fixes, raised>>; response.raised is the request, the status
\* check or the decoding of lines 350-352 raising, response.records is
\* response.json().
fetch_github_issues(name, response) ==
  IF response.raised THEN except(<<<<>>, <<>>, FALSE>>)
  ELSE github_loop(name, SubSeq(response.records, 1, Min(30, Len(response.records))), <<<<>>, <<>>, FALSE>>)

-----------------------------------------------------------------------------
(* check_repo_status *)

\* The calls of lines 490-496 in their order; the sources are named by their
\* key in config['sources'].
fetch_order ==
  <<"arch_news", "arch_bugs", "arch_reddit", "phoronix", "arch_forums_recent",
    "cachyos_news", "cachyos_kernel_repo", "analyze">>

after(key) ==
  fetch_order[1 + CHOOSE n \in 1..Len(fetch_order) : fetch_order[n] = key]

\* <<key, name, confidence, days_limit>> of the calls of _fetch_feed.
feed_calls ==
  { <<"arch_news", "Arch Linux News", 95, 7>>,
    <<"arch_bugs", "Arch Linux Bugs", 98, 14>>,
    <<"phoronix", "Phoronix", 70, 7>>,
    <<"arch_forums_recent", "Arch Forums", 75, 7>>,
    <<"cachyos_news", "CachyOS Blog", 95, 7>> }

\* process_fetch of lines 485-488; errors is the log of the error handlers of
\* the fetchers, one source name for each error logged.
process_fetch(name, fetch_result) ==
  /\ all_issues_raw' = all_issues_raw \o fetch_result[1]
  /\ all_fixes_raw' = all_fixes_raw \o fetch_result[2]
  /\ errors' = IF fetch_result[3] THEN Append(errors, name) ELSE errors

-----------------------------------------------------------------------------
(* A run of check_repo_status over what the sources return *)

\* Bounds: the score of a post, up or down, and the number of comments of a
\* post or an issue.
MaxScore == 8

MaxComments == 1

kernel_panic == <<"k","e","r","n","e","l"," ","p","a","n","i","c">>

mesa_crash == <<"m","e","s","a"," ","c","r","a","s","h">>

pacman_broken == <<"p","a","c","m","a","n"," ","b","r","o","k","e","n">>

fixes_482 == <<"F","i","x","e","s"," ","#","4","8","2">>

feed_keys == {"title", "summary", "published_parsed", "link"}

entry_problem ==
  [keys |-> feed_keys, title |-> kernel_panic, summary |-> <<>>,
   published_parsed |-> now - 1, link |-> <<"x","/","i","s","s","u","e","s","/","4","8","2">>]

entry_fix ==
  [keys |-> feed_keys, title |-> fixes_482, summary |-> <<>>,
   published_parsed |-> now, link |-> <<"x","/","f">>]

\* An entry that every feed skips for its age.
entry_stale ==
  [keys |-> feed_keys, title |-> mesa_crash, summary |-> <<>>,
   published_parsed |-> now - 15, link |-> <<"x","/","s">>]

\* An entry without a title.
entry_untitled ==
  [keys |-> feed_keys \ {"title"}, title |-> <<>>, summary |-> mesa_crash,
   published_parsed |-> now, link |-> <<"x","/","u">>]

\* A source that answers with records, and a source whose request raises.
answer(records) == [raised |-> FALSE, records |-> records]

no_answer == [raised |-> TRUE, records |-> <<>>]

\* What feedparser.parse may do for a source.
feeds(key) ==
  IF key = "arch_news"
    THEN {no_answer, answer(<<>>), answer(<<entry_problem>>),
          answer(<<entry_problem, entry_untitled, entry_fix>>),
          answer(<<entry_stale, entry_fix>>)}
  ELSE IF key = "arch_forums_recent"
    THEN {no_answer, answer(<<entry_fix, entry_problem>>)}
  ELSE IF key = "arch_bugs"
    THEN {no_answer, answer(<<entry_untitled, entry_problem>>)}
  ELSE {no_answer, answer(<<entry_problem>>)}

reddit_keys ==
  {"title", "selftext", "score", "num_comments", "created_utc", "permalink"}

reddit_scores == {0 - MaxScore, 0, MaxScore}

reddit_record(keys, title, score, num_comments) ==
  [keys |-> keys, title |-> title, selftext |-> <<>>, score |-> score,
   num_comments |-> num_comments, created_utc |-> now,
   permalink |-> <<"/","r","/","1">>]

\* What the social source may do: raise, no post, one post, or a post without
\* a permalink before a post that has all its keys.
reddit_posts ==
  {no_answer, answer(<<>>),
   answer(<<reddit_record(reddit_keys \ {"permalink"}, kernel_panic, 0, 0),
            reddit_record(reddit_keys, kernel_panic, 0, 0)>>)} \cup
  {answer(<<reddit_record(reddit_keys, t, s, c)>>) :
     t \in {kernel_panic, pacman_broken}, s \in reddit_scores,
     c \in {0, MaxComments}}

github_keys ==
  {"title", "body", "created_at", "state", "comments", "labels", "html_url"}

github_labels ==
  {{}, {<<"B","u","g">>}, {<<"r","e","g","r","e","s","s","i","o","n">>}}

github_record(keys, title, state, comments, labels) ==
  [keys |-> keys, title |-> title, body |-> <<>>, created_at |-> now,
   state |-> state, comments |-> comments, labels |-> labels,
   html_url |-> <<"g","/","1">>]

\* What the issue tracker may do: raise, no issue, one issue, or an issue
\* that has all its keys before an issue without a creation date.
github_issues ==
  {no_answer, answer(<<>>),
   answer(<<github_record(github_keys, kernel_panic, "open", 0, {}),
            github_record(github_keys \ {"created_at"}, kernel_panic, "open", 0, {})>>),
   answer(<<github_record(github_keys, kernel_panic, "closed", 0, {})>>)} \cup
  {answer(<<github_record(github_keys, t, "open", c, l)>>) :
     t \in {kernel_panic, mesa_crash}, c \in {0, MaxComments},
     l \in github_labels}

\* The value of the variable fetched.
received(name, r) == [source |-> name, raised |-> r.raised, records |-> r.records]

Init ==
  /\ pc = "arch_news"
  /\ entry = None
  /\ built = <<None, None>>
  /\ fetched = None
  /\ errors = <<>>
  /\ all_issues_raw = <<>>
  /\ all_fixes_raw = <<>>
  /\ dedup_issues = <<>>
  /\ dedup_fixes = <<>>
  /\ unresolved = <<>>
  /\ resolved = <<>>
  /\ safety_status = None

\* Lines 490, 491, 493-495.
FetchFeed ==
  /\ \E call \in feed_calls :
       /\ pc = call[1]
       /\ \E feed \in feeds(call[1]) :
            /\ fetched' = Some(received(call[2], feed))
            /\ process_fetch(call[2], _fetch_feed(call[2], feed, call[3], call[4]))
  /\ pc' = after(pc)
  /\ UNCHANGED <<entry, built, dedup_issues, dedup_fixes, unresolved, resolved,
                 safety_status>>

\* Line 492.
FetchReddit ==
  /\ pc = "arch_reddit"
  /\ \E r \in reddit_posts :
       /\ fetched' = Some(received("Reddit r/archlinux", r))
       /\ process_fetch("Reddit r/archlinux", fetch_reddit("Reddit r/archlinux", r))
  /\ pc' = after(pc)
  /\ UNCHANGED <<entry, built, dedup_issues, dedup_fixes, unresolved, resolved,
                 safety_status>>

\* Line 496.
FetchGithub ==
  /\ pc = "cachyos_kernel_repo"
  /\ \E r \in github_issues :
       /\ fetched' = Some(received("CachyOS Kernel Issues", r))
       /\ process_fetch("CachyOS Kernel Issues", fetch_github_issues("CachyOS Kernel Issues", r))
  /\ pc' = after(pc)
  /\ UNCHANGED <<entry, built, dedup_issues, dedup_fixes, unresolved, resolved,
                 safety_status>>

\* Lines 500-511.
Analyze ==
  /\ pc = "analyze"
  /\ dedup_issues' = _deduplicate(confident_issues(all_issues_raw))
  /\ dedup_fixes' = _deduplicate(all_fixes_raw)
  /\ unresolved' = sorted_unresolved(_correlate_and_filter(dedup_issues', dedup_fixes')[1])
  /\ resolved' = _correlate_and_filter(dedup_issues', dedup_fixes')[2]
  /\ safety_status' = Some(_analyze_update_safety(unresolved'))
  /\ pc' = "done"
  /\ UNCHANGED <<entry, built, fetched, errors, all_issues_raw, all_fixes_raw>>

Next == FetchFeed \/ FetchReddit \/ FetchGithub \/ Analyze

Spec == Init /\ [][Next]_vars

-----------------------------------------------------------------------------
(* Properties of a run of check_repo_status *)

\* C6: no issue of severity low and no issue of a confidence below 35 is
\* among the issues collected for, or coming out of, the deduplicator and the
\* correlator, whichever source built it.
C6_OnlyConfidentProblems ==
  /\ \A k \in 1..Len(all_issues_raw) : all_issues_raw[k].severity # "low"
  /\ \A k \in 1..Len(dedup_issues) :
       /\ dedup_issues[k].severity # "low"
       /\ dedup_issues[k].confidence_score >= 35
  /\ \A k \in 1..Len(unresolved) :
       /\ unresolved[k].severity # "low"
       /\ unresolved[k].confidence_score >= 35
  /\ \A k \in 1..Len(resolved) :
       /\ resolved[k].issue.severity # "low"
       /\ resolved[k].issue.confidence_score >= 35

\* A post of confidence 30 was built and dropped, and an issue of the tracker
\* went on with the severity of its label.
C6_Witness ==
  /\ pc = "done"
  /\ \E k \in 1..Len(all_issues_raw) :
       /\ all_issues_raw[k].source = "Reddit r/archlinux"
       /\ all_issues_raw[k].confidence_score = 30
  /\ \E k \in 1..Len(dedup_issues) :
       /\ dedup_issues[k].source = "CachyOS Kernel Issues"
       /\ dedup_issues[k].title = mesa_crash
       /\ dedup_issues[k].severity = "high"

-----------------------------------------------------------------------------
(* Properties of the record builder *)

\* full_text of line 266.
full_text_of(e) == lower(e.title) \o <<" ">> \o lower(e.body)

has_fix_keyword(e) ==
  \/ any_in(keywords_fix_keywords, lower(e.title))
  \/ any_in(keywords_fix_keywords, lower(e.body))

is_fix(processed) == processed[1] = None /\ processed[2] # None

\* C7, as the code has it: when the title contains an explicit fix marker, or
\* the title or the body contains a fix keyword, the builder returns a fix and
\* no issue, whatever other keywords the text contains.
C7_FixPrecedence ==
  (/\ pc = "built"
   /\ \/ any_in(keywords_explicit_fix_markers, lower(entry.title))
      \/ has_fix_keyword(entry))
    => is_fix(built)

\* C7 as stated: an explicit fix marker in the title or in the body, or a fix
\* keyword in either, makes the builder return a fix.
C7_AsStated ==
  (/\ pc = "built"
   /\ \/ any_in(keywords_explicit_fix_markers, lower(entry.title))
      \/ any_in(keywords_explicit_fix_markers, lower(entry.body))
      \/ has_fix_keyword(entry))
    => is_fix(built)

\* A fix is built from a text that names a boot failure and is a discussion.
C7_Witness ==
  /\ pc = "built"
  /\ is_fix(built)
  /\ any_in(keywords_critical_boot_failure, full_text_of(entry))
  /\ any_in(keywords_discussion, full_text_of(entry))

\* C8 as stated: for a text with a boot failure phrase the first rule gives
\* critical if the source is official, and high for every other source.
C8_AsStated ==
  (pc = "built" /\ any_in(keywords_critical_boot_failure, full_text_of(entry))) =>
    boot_failure_rule(full_text_of(entry), entry.name)[1] =
      IF entry.name \in Range(source_types_official) THEN "critical" ELSE "high"

\* An issue of a source in neither list is built as critical.
C8_Witness ==
  /\ pc = "built"
  /\ entry.name \notin Range(source_types_official) \cup Range(source_types_community)
  /\ built[1] # None
  /\ built[1][1].severity = "critical"

app_without_critical_system(text) ==
  /\ any_in(keywords_user_space_apps, text)
  /\ ~any_package(_extract_packages(text), categories_critical_system)

\* C9, as the code has it: for a text with a boot failure phrase the severity
\* is critical for an official source; for a community source it is high,
\* unless the text names a user-space application and no critical system
\* package, and then it is medium.
C9_CommunityDiscount ==
  (pc = "built" /\ any_in(keywords_critical_boot_failure, full_text_of(entry))) =>
    /\ (entry.name \in Range(source_types_official) =>
          _get_severity(full_text_of(entry), entry.title, entry.name)[1] = "critical")
    /\ (entry.name \in Range(source_types_community) =>
          _get_severity(full_text_of(entry), entry.title, entry.name)[1] =
            IF app_without_critical_system(full_text_of(entry)) THEN "medium" ELSE "high")

\* C9 as stated: for a text with a boot failure phrase the severity for a
\* community source is high.
C9_AsStated ==
  (/\ pc = "built"
   /\ any_in(keywords_critical_boot_failure, full_text_of(entry))
   /\ entry.name \in Range(source_types_community)) =>
    _get_severity(full_text_of(entry), entry.title, entry.name)[1] = "high"

\* An issue of a community source with a boot failure phrase and the name of
\* an application is built as medium.
C9_Witness ==
  /\ pc = "built"
  /\ entry.name \in Range(source_types_community)
  /\ any_in(keywords_critical_boot_failure, full_text_of(entry))
  /\ any_in(keywords_user_space_apps, full_text_of(entry))
  /\ built[1] # None
  /\ built[1][1].severity = "medium"

-----------------------------------------------------------------------------
(* Failures of the sources *)

\* The records of a list that come from the source of that name.
from_source(items, name) == SelectSeq(items, LAMBDA i : i.source = name)

\* C11, as stated: a source whose fetch failed, at whatever point, has
\* contributed no problem and no fix to the run.
C11_AsStated ==
  \A name \in Range(errors) :
    /\ from_source(all_issues_raw, name) = <<>>
    /\ from_source(all_fixes_raw, name) = <<>>

\* C11: the run has completed with a result although a source failed, and
\* the records that the failing source built before it failed are in the run.
C11_Witness ==
  /\ pc = "done"
  /\ safety_status # None
  /\ \E name \in Range(errors) : from_source(all_issues_raw, name) # <<>>
  /\ \E n \in 1..Len(all_issues_raw) : all_issues_raw[n].source \notin Range(errors)

\* The keys that the loop of a source reads without a default.
expected_keys(name) ==
  IF name = "Reddit r/archlinux" THEN {"created_utc", "title", "permalink"}
  ELSE IF name = "CachyOS Kernel Issues" THEN {"created_at", "title", "html_url"}
  ELSE {"title", "link"}

well_formed(name, records) ==
  SelectSeq(records, LAMBDA r : expected_keys(name) \subseteq r.keys)

\* The fetcher of the source of that name, on the records it is given.
fetch_of(name, records) ==
  IF name = "Reddit r/archlinux" THEN fetch_reddit(name, answer(records))
  ELSE IF name = "CachyOS Kernel Issues" THEN fetch_github_issues(name, answer(records))
  ELSE LET call == CHOOSE c \in feed_calls : c[2] = name
       IN  _fetch_feed(name, answer(records), call[3], call[4])

\* C12, as stated: a record that lacks an expected key is skipped alone; what
\* a source contributes is what its fetcher builds from its well-formed
\* records, those after a malformed record included.
C12_AsStated ==
  \A r \in Range(fetched) :
    ~r.raised =>
      /\ from_source(all_issues_raw, r.source) = fetch_of(r.source, well_formed(r.source, r.records))[1]
      /\ from_source(all_fixes_raw, r.source) = fetch_of(r.source, well_formed(r.source, r.records))[2]

\* C12: a source returned a record without a title and, after it, a fix with
\* all its keys; the fix was not built.
C12_Witness ==
  \E r \in Range(fetched) :
    /\ r.records = <<entry_problem, entry_untitled, entry_fix>>
    /\ from_source(all_issues_raw, r.source) # <<>>
    /\ from_source(all_fixes_raw, r.source) = <<>>
    /\ fetch_of(r.source, <<entry_fix>>)[2] # <<>>

\* C13, as stated: every problem built in a run has a confidence in 0..100,
\* whatever its source's seed, after the bonus for a debug artifact and after
\* the override of a label.
C13_AsStated ==
  \A n \in 1..Len(all_issues_raw) :
    all_issues_raw[n].confidence_score \in 0..100

\* C13: a post whose title names a boot failure passes the engagement filter
\* with a score below zero, and the problem built from it has the seed of
\* line 333 as its confidence.
C13_Witness ==
  \E r \in Range(fetched) : \E n \in 1..Len(all_issues_raw) :
    /\ r.source = "Reddit r/archlinux"
    /\ r.records = <<reddit_record(reddit_keys, kernel_panic, 0 - MaxScore, 0)>>
    /\ all_issues_raw[n].source = r.source
    /\ all_issues_raw[n].confidence_score = 30 - (4 * MaxScore)
    /\ all_issues_raw[n].confidence_score < 0

-----------------------------------------------------------------------------
(* The selection rule of the correlator *)

\* The positions, in ascending date order, of the fixes that a problem may
\* take: published at or after it, and of a URL that is not consumed.
eligible(issue, used) ==
  {i \in 1..Len(dedup_fixes) :
     /\ sorted_by_date(dedup_fixes)[i].date >= issue.date
     /\ sorted_by_date(dedup_fixes)[i].url \notin used}

score_of(issue, i) ==
  final_score(issue, issue_id_of(issue.url), sorted_by_date(dedup_fixes)[i])

\* The first position of maximum score among the eligible ones.
selected(issue, used) ==
  {i \in eligible(issue, used) :
     \A j \in eligible(issue, used) :
       /\ score_of(issue, j)[1] * score_of(issue, i)[2] <= score_of(issue, i)[1] * score_of(issue, j)[2]
       /\ (j < i => score_of(issue, j)[1] * score_of(issue, i)[2] < score_of(issue, i)[1] * score_of(issue, j)[2])}

resolved_as(issue, i) ==
  \E j \in 1..Len(resolved) :
    /\ resolved[j].issue = issue
    /\ resolved[j].fix = sorted_by_date(dedup_fixes)[i]
    /\ resolved[j].correlation_score = score_of(issue, i)

selection_rule(issue, used) ==
  IF \E i \in eligible(issue, used) : Exceeds(score_of(issue, i), correlation_threshold, 100)
    THEN /\ \E i \in selected(issue, used) : resolved_as(issue, i)
         /\ issue \notin Range(unresolved)
    ELSE /\ issue \in Range(unresolved)
         /\ \A j \in 1..Len(resolved) : resolved[j].issue # issue

\* C14: a Problem is resolved iff some eligible Fix scores strictly above
\* 0.65; it is paired with the Fix of maximum score, the first one in
\* ascending date order among equals; otherwise it is in unresolved; every
\* input Problem is in exactly one of the two outputs, once.
C14_SelectionRule ==
  pc = "correlated" =>
    /\ \A k \in 1..Len(dedup_issues) :
         selection_rule(sorted_by_date(dedup_issues)[k], used_before(k))
    /\ Len(unresolved) + Len(resolved) = Len(dedup_issues)

\* Two eligible fixes of different dates tie at the maximum, above the
\* threshold, and the earlier one was taken.
C14_Witness ==
  /\ pc = "correlated"
  /\ \E j \in 1..Len(resolved) : \E i \in 1..Len(dedup_fixes) :
       /\ sorted_by_date(dedup_fixes)[i] # resolved[j].fix
       /\ sorted_by_date(dedup_fixes)[i].date > resolved[j].fix.date
       /\ resolved[j].fix.date >= resolved[j].issue.date
       /\ score_of(resolved[j].issue, i) = resolved[j].correlation_score
       /\ resolved[j].correlation_score # <<1, 1>>

-----------------------------------------------------------------------------
(* The greedy rule of the deduplicator *)

\* Near-duplicate: title similarity above 0.70.
near_duplicate(a, b) == Exceeds(_get_title_similarity(a.title, b.title), 7, 10)

\* The items of s at the positions K, in their order.
pick(s, K) ==
  LET F[n \in 0..Len(s)] ==
        IF n = 0 THEN <<>>
        ELSE IF n \in K THEN Append(F[n - 1], s[n]) ELSE F[n - 1]
  IN  F[Len(s)]

\* s is a rearrangement of items in descending order of the key.
ranked(s, items, key(_)) ==
  /\ Len(s) = Len(items)
  /\ Range(s) = Range(items)
  /\ \A n, m \in 1..Len(s) : n < m => key(s[n]) >= key(s[m])

\* output is what the greedy rule keeps of s: position n is kept iff its item
\* is near-duplicate of no item kept before it.
greedy(s, output) ==
  \E K \in SUBSET (1..Len(s)) :
    /\ output = pick(s, K)
    /\ \A n \in 1..Len(s) :
         n \in K <=> \A m \in K : m < n => ~near_duplicate(s[n], s[m])
    /\ \A n, m \in K : n # m => ~near_duplicate(s[n], s[m])
    /\ s # <<>> => 1 \in K
    /\ \A n \in (1..Len(s)) \ K : \E m \in K : m < n /\ near_duplicate(s[n], s[m])

confidence_of(item) == item.confidence_score

date_of(item) == item.date

\* C15: the items are ranked by confidence descending (problems) or date
\* descending (fixes); an item is kept iff it is near-duplicate of no item
\* kept before it; so the output is a subsequence of the ranked input, its
\* items are pairwise not near-duplicate, the top-ranked item is kept, and
\* every dropped item is near-duplicate of a kept item ranked before it.
C15_GreedyRule ==
  pc = "deduped" =>
    /\ ranked(sorted_for_dedup(confident_issues(all_issues_raw)), confident_issues(all_issues_raw), confidence_of)
    /\ ranked(sorted_for_dedup(all_fixes_raw), all_fixes_raw, date_of)
    /\ greedy(sorted_for_dedup(confident_issues(all_issues_raw)), dedup_issues)
    /\ greedy(sorted_for_dedup(all_fixes_raw), dedup_fixes)

\* Of three ranked items the second is dropped as near-duplicate of the
\* first, and the third is kept although it is near-duplicate of the dropped
\* one.
C15_Witness ==
  /\ pc = "deduped"
  /\ Len(all_issues_raw) = 3
  /\ dedup_issues = pick(sorted_for_dedup(all_issues_raw), {1, 3})
  /\ near_duplicate(sorted_for_dedup(all_issues_raw)[3], sorted_for_dedup(all_issues_raw)[2])
  /\ sorted_for_dedup(all_issues_raw)[1].confidence_score > sorted_for_dedup(all_issues_raw)[3].confidence_score

-----------------------------------------------------------------------------
(* The correlator against the other assignments *)

\* <<title, url>>: the first two fixes score 0.70 with the problem "pacman
\* broken", the first and the last score 0.70 and 0.783 with "pacman crash".
assign_fix_titles ==
  { << <<"p","a","c","m","a","n"," ","b","r","o","k","e","n"," ","c","r","a","s","h"," ","f","i","x","e","d">>, <<"f","/","1">> >>,
    << <<"p","a","c","m","a","n"," ","b","r","o","k","e","n"," ","t","o","d","a","y"," ","f","i","x","e","d">>, <<"f","/","5">> >>,
    << <<"p","a","c","m","a","n"," ","c","r","a","s","h"," ","f","i","x","e","d">>, <<"f","/","3">> >> }

assign_fix_pool ==
  built_fixes("Arch Forums", assign_fix_titles, correlate_dates)

InitAssign ==
  /\ pc = "correlate"
  /\ dedup_issues \in ListsUpTo(correlate_issue_pool, MaxIssues)
  /\ dedup_fixes \in ListsUpTo(assign_fix_pool, MaxFixes)
  /\ entry = None
  /\ built = <<None, None>>
  /\ fetched = None
  /\ errors = <<>>
  /\ all_issues_raw = <<>>
  /\ all_fixes_raw = <<>>
  /\ unresolved = <<>>
  /\ resolved = <<>>
  /\ safety_status = None

SpecAssign == InitAssign /\ [][NextCorrelate]_vars

\* An assignment gives each problem, by its position in the input, the
\* position of a fix, or 0 for none.
assignments == [1..Len(dedup_issues) -> 0..Len(dedup_fixes)]

pair_score(k, i) ==
  final_score(dedup_issues[k], issue_id_of(dedup_issues[k].url), dedup_fixes[i])

\* The constraints of the correlator: the fix is not older than the problem,
\* the score is strictly above 0.65, and no fix serves two problems.
respects(g) ==
  /\ \A k \in DOMAIN g :
       g[k] # 0 => /\ dedup_fixes[g[k]].date >= dedup_issues[k].date
                   /\ Exceeds(pair_score(k, g[k]), correlation_threshold, 100)
  /\ \A j, k \in DOMAIN g :
       (j # k /\ g[j] # 0 /\ g[k] # 0) => dedup_fixes[g[j]].url # dedup_fixes[g[k]].url

resolves(g) == Cardinality({k \in DOMAIN g : g[k] # 0})

\* The assignment that the correlator returned.
returned ==
  [k \in 1..Len(dedup_issues) |->
     IF \E j \in 1..Len(resolved) : resolved[j].issue = dedup_issues[k]
       THEN CHOOSE i \in 1..Len(dedup_fixes) :
              \E j \in 1..Len(resolved) :
                /\ resolved[j].issue = dedup_issues[k]
                /\ resolved[j].fix = dedup_fixes[i]
                /\ resolved[j].correlation_score = pair_score(k, i)
       ELSE 0]

\* C16: what the correlator returns is one of the assignments that respect
\* its constraints, and every fix that an unresolved problem could take is
\* consumed; it is a maximal assignment, not a greatest one: that another
\* assignment resolves strictly more problems is the state of C16_Witness.
C16_NotOptimal ==
  pc = "correlated" =>
    /\ returned \in assignments
    /\ respects(returned)
    /\ resolves(returned) = Len(resolved)
    /\ \A k \in 1..Len(dedup_issues) : \A i \in 1..Len(dedup_fixes) :
         (/\ returned[k] = 0
          /\ dedup_fixes[i].date >= dedup_issues[k].date
          /\ Exceeds(pair_score(k, i), correlation_threshold, 100))
           => \E j \in 1..Len(resolved) : resolved[j].fix.url = dedup_fixes[i].url

\* The problem visited first takes the first of two fixes that tie for it,
\* the only fix the second problem could take; giving it the other fix
\* resolves both. The titles are pairwise not near-duplicate.
C16_Witness ==
  /\ pc = "correlated"
  /\ Len(dedup_issues) = 2
  /\ Len(resolved) = 1
  /\ _deduplicate(dedup_issues) = dedup_issues
  /\ Len(_deduplicate(dedup_fixes)) = Len(dedup_fixes)
  /\ \E g \in assignments : respects(g) /\ resolves(g) = 2

\* The list with one more item at position n + 1.
inserted(s, n, item) == SubSeq(s, 1, n) \o <<item>> \o SubSeq(s, n + 1, Len(s))

distinct_urls(s) == \A j, k \in 1..Len(s) : j # k => s[j].url # s[k].url

resolved_problems(resolutions) ==
  {resolutions[j].issue : j \in 1..Len(resolutions)}

\* C19: for problems and fixes of pairwise distinct URLs, one more fix in the
\* input, wherever it stands in the list, leaves every resolved problem
\* resolved.
C19_FixMonotone ==
  pc = "correlated" =>
    \A fix \in assign_fix_pool : \A n \in 0..Len(dedup_fixes) :
      (distinct_urls(dedup_issues) /\ distinct_urls(inserted(dedup_fixes, n, fix)))
        => resolved_problems(resolved)
             \subseteq resolved_problems(_correlate_and_filter(dedup_issues, inserted(dedup_fixes, n, fix))[2])

\* With one more fix the problem visited first changes to it, and the fix it
\* gives up resolves a problem that was unresolved.
C19_Witness ==
  /\ pc = "correlated"
  /\ distinct_urls(dedup_issues)
  /\ Len(resolved) = 1
  /\ Len(unresolved) = 1
  /\ \E fix \in assign_fix_pool : \E n \in 0..Len(dedup_fixes) :
       /\ distinct_urls(inserted(dedup_fixes, n, fix))
       /\ \E j, k \in 1..2 :
            /\ j # k
            /\ _correlate_and_filter(dedup_issues, inserted(dedup_fixes, n, fix))[2][j].issue = resolved[1].issue
            /\ _correlate_and_filter(dedup_issues, inserted(dedup_fixes, n, fix))[2][j].fix = fix
            /\ _correlate_and_filter(dedup_issues, inserted(dedup_fixes, n, fix))[2][k].fix = resolved[1].fix
            /\ Len(_correlate_and_filter(dedup_issues, inserted(dedup_fixes, n, fix))[2]) = 2

-----------------------------------------------------------------------------
(* The stop list of the extractor *)

\* Every keyword string of config['keywords']: the items of the lists, and
\* the phrases of the semantic groups.
configured_keywords ==
  UNION {Range(keywords_items[n]) : n \in 1..(Len(keywords_items) - 1)}
    \cup UNION {Range(keywords_semantic_groups[g][2]) : g \in 1..Len(keywords_semantic_groups)}

\* C17, as stated: every configured keyword string, the phrases of the
\* semantic groups included, is in the stop list, so none is returned as a
\* pattern candidate unless it is a known package.
C17_AsStated ==
  /\ configured_keywords \subseteq master_stop_list
  /\ pc = "built" =>
       \A keyword \in configured_keywords :
         keyword \in _extract_packages(full_text_of(entry))
           => keyword \in Range(all_known_packages)

\* C17: the phrase 'ssd' of the group 'storage' is not in the stop list, it
\* is not a known package, and the problem built from a text with 'issue
\* with ssd' has it as an affected package.
C17_Witness ==
  /\ pc = "built"
  /\ built[1] # None
  /\ <<"s","s","d">> \in configured_keywords
  /\ <<"s","s","d">> \notin master_stop_list
  /\ <<"s","s","d">> \notin Range(all_known_packages)
  /\ <<"s","s","d">> \in built[1][1].affected_packages
  /\ <<"s","t","o","r","a","g","e">> \in master_stop_list

-----------------------------------------------------------------------------
(* The boot-failure phrase as a signal of the classifier *)

severity_rank(severity) ==
  IF severity = "critical" THEN 3
  ELSE IF severity = "high" THEN 2
  ELSE IF severity = "medium" THEN 1
  ELSE 0

\* The text with a critical-boot-failure phrase after it.
with_phrase(text) == text \o <<" ">> \o kernel_panic

\* The signals of the classifier other than the boot-failure phrase.
same_signals(text, other) ==
  /\ _extract_packages(text) = _extract_packages(other)
  /\ any_in(keywords_kernel_failure_triggers, text) <=> any_in(keywords_kernel_failure_triggers, other)
  /\ any_in(keywords_problem, text) <=> any_in(keywords_problem, other)
  /\ any_in(keywords_user_space_apps, text) <=> any_in(keywords_user_space_apps, other)
  /\ any_in(keywords_help_indicators, text) <=> any_in(keywords_help_indicators, other)

\* The text of the entry has no boot-failure phrase, and the phrase changes
\* no other signal.
phrase_alone(text) ==
  /\ ~any_in(keywords_critical_boot_failure, text)
  /\ any_in(keywords_critical_boot_failure, with_phrase(text))
  /\ same_signals(text, with_phrase(text))

severity_of(text, source) == _get_severity(text, <<>>, source)[1]

\* The kernel-failure rule of lines 191-193 applies to the text.
kernel_failure(text) ==
  /\ any_package(_extract_packages(text), categories_kernel_packages)
  /\ any_in(keywords_kernel_failure_triggers, text)

\* C18, as stated: the text with the phrase is never classified lower than the
\* same text without it, the source and the other signals being equal.
C18_AsStated ==
  pc = "built" =>
    (phrase_alone(full_text_of(entry)) =>
       severity_rank(severity_of(with_phrase(full_text_of(entry)), entry.name))
         >= severity_rank(severity_of(full_text_of(entry), entry.name)))

\* C18: the text with the phrase is never classified lower than the same text
\* without it, except for a community source when the text names a kernel
\* package and a kernel-failure trigger: then it is critical without the
\* phrase, and high or medium with it.
C18_SignalMonotone ==
  pc = "built" =>
    (phrase_alone(full_text_of(entry)) =>
       IF entry.name \in Range(source_types_community) /\ kernel_failure(full_text_of(entry))
         THEN /\ severity_of(full_text_of(entry), entry.name) = "critical"
              /\ severity_of(with_phrase(full_text_of(entry)), entry.name) \in {"high", "medium"}
         ELSE severity_rank(severity_of(with_phrase(full_text_of(entry)), entry.name))
                >= severity_rank(severity_of(full_text_of(entry), entry.name)))

\* A post of a community source about a broken kernel module was built as a
\* critical problem; with the phrase after it the same text is high.
C18_Witness ==
  /\ pc = "built"
  /\ entry.name = "Reddit r/archlinux"
  /\ phrase_alone(full_text_of(entry))
  /\ kernel_failure(full_text_of(entry))
  /\ built[1] # None
  /\ built[1][1].severity = "critical"
  /\ severity_of(with_phrase(full_text_of(entry)), entry.name) = "high"

-----------------------------------------------------------------------------
(* The report of the risk aggregator *)

\* The level that the thresholds give to a whole number.
level_of_score(score) ==
  IF score > 100 THEN "DANGEROUS"
  ELSE IF score >= 56 THEN "RISKY"
  ELSE IF score >= 26 THEN "CAUTION"
  ELSE "SAFE"

nearest(score, f) ==
  /\ 2 * (f[1] - (score * f[2])) <= f[2]
  /\ 2 * ((score * f[2]) - f[1]) <= f[2]

====
